---- MODULE Spec2Model ----
(***************************************************************************)
(* The PowerShell Direct communicator (package powershelldirect):         *)
(* Communicator.Start, the four goroutines it launches over a             *)
(* streamProcess, and the line protocol decoded by consumeMessages.       *)
(*                                                                         *)
(* Text is modelled as a sequence of one-character strings, bytes as a    *)
(* sequence of numbers 0..255.  A line of the structured stdout stream is *)
(* a record: what strings.TrimSpace and json.Unmarshal make of it (blank, *)
(* rejected by the JSON decoder, or an object with the fields stream,     *)
(* data and code).  The streams are read a whole line at a time.          *)
(***************************************************************************)
EXTENDS Integers, Sequences, FiniteSets, TLC

\* Most lines the process writes to its structured stdout in one run.
MaxLines == 2

\* Most lines of the reader consumeMessages is run on by itself.
MaxInput == 3

\* Most chunks the process writes to its raw stderr in one run.
MaxRaw == 1

\* The longest local path given to a transfer operation.
MaxPath == 3

\* Most bytes a reader delivers or the script leaves in the temporary file.
MaxData == 2

\* The calls of Wait and Kill made on one stream process.
MaxCalls == 3

\* The free memory, in MB, below which the host is short of memory.
LowRam == 256

\* The longest byte string encoded, and the longest other string decoded.
MaxBytes == 3
MaxText == 4

commandFailureStatus == 1

executeCommandScript == "executeCommandScript"

----------------------------------------------------------------------------
(* strings.TrimSpace *)

IsSpace(ch) == ch \in {" ", "\t", "\n", "\r"}

RECURSIVE TrimLeft(_)
TrimLeft(s) ==
    IF s = <<>> THEN s
    ELSE IF IsSpace(Head(s)) THEN TrimLeft(Tail(s)) ELSE s

RECURSIVE TrimRight(_)
TrimRight(s) ==
    IF s = <<>> THEN s
    ELSE IF IsSpace(s[Len(s)]) THEN TrimRight(SubSeq(s, 1, Len(s) - 1)) ELSE s

TrimSpace(s) == TrimRight(TrimLeft(s))

----------------------------------------------------------------------------
(* encoding/base64, StdEncoding.DecodeString: the standard alphabet with  *)
(* '=' padding; '\r' and '\n' are skipped, every other character outside  *)
(* the alphabet is an error, and so is a length that is no multiple of 4. *)

B64Chars ==
    << "A","B","C","D","E","F","G","H","I","J","K","L","M","N","O","P",
       "Q","R","S","T","U","V","W","X","Y","Z","a","b","c","d","e","f",
       "g","h","i","j","k","l","m","n","o","p","q","r","s","t","u","v",
       "w","x","y","z","0","1","2","3","4","5","6","7","8","9","+","/" >>

IsB64(ch) == \E i \in 1..64 : B64Chars[i] = ch

B64Val(ch) == (CHOOSE i \in 1..64 : B64Chars[i] = ch) - 1

RECURSIVE StripNewlines(_)
StripNewlines(s) ==
    IF s = <<>> THEN s
    ELSE IF Head(s) \in {"\r", "\n"} THEN StripNewlines(Tail(s))
    ELSE <<Head(s)>> \o StripNewlines(Tail(s))

\* The bytes of one quantum of four characters; q is the last one of the input
\* when last is TRUE, and only then may it end in padding.
QuantumOk(q, last) ==
    /\ IsB64(q[1]) /\ IsB64(q[2])
    /\ \/ IsB64(q[3]) /\ IsB64(q[4])
       \/ last /\ IsB64(q[3]) /\ q[4] = "="
       \/ last /\ q[3] = "=" /\ q[4] = "="

QuantumBytes(q) ==
    LET v3 == IF q[3] = "=" THEN 0 ELSE B64Val(q[3])
        v4 == IF q[4] = "=" THEN 0 ELSE B64Val(q[4])
        v  == B64Val(q[1]) * 262144 + B64Val(q[2]) * 4096 + v3 * 64 + v4
        b1 == v \div 65536
        b2 == (v \div 256) % 256
        b3 == v % 256
    IN  IF q[3] = "=" THEN <<b1>>
        ELSE IF q[4] = "=" THEN <<b1, b2>>
        ELSE <<b1, b2, b3>>

RECURSIVE DecodeQuanta(_)
DecodeQuanta(s) ==
    IF s = <<>> THEN [err |-> FALSE, bytes |-> <<>>]
    ELSE IF Len(s) < 4 THEN [err |-> TRUE, bytes |-> <<>>]
    ELSE LET q    == SubSeq(s, 1, 4)
             rest == SubSeq(s, 5, Len(s))
         IN  IF ~QuantumOk(q, rest = <<>>) THEN [err |-> TRUE, bytes |-> <<>>]
             ELSE LET r == DecodeQuanta(rest)
                  IN  IF r.err THEN r
                      ELSE [err |-> FALSE, bytes |-> QuantumBytes(q) \o r.bytes]

DecodeString(s) == DecodeQuanta(StripNewlines(s))

\* Mutant of decodeBase64: the blank string is decoded like any other.
decodeBase64NoBlankCheck(value) == DecodeString(value)

decodeBase64(value) ==
    IF TrimSpace(value) = <<>> THEN [err |-> FALSE, bytes |-> <<>>]
    ELSE DecodeString(value)

\* base64.StdEncoding.EncodeToString: three bytes make four characters, and
\* a last group of one or two bytes is padded with '='.
RECURSIVE EncodeToString(_)
EncodeToString(b) ==
    IF b = <<>> THEN <<>>
    ELSE LET c1 == B64Chars[(b[1] \div 4) + 1]
         IN  IF Len(b) = 1
             THEN <<c1, B64Chars[(b[1] % 4) * 16 + 1], "=", "=">>
             ELSE LET c2 == B64Chars[(b[1] % 4) * 16 + (b[2] \div 16) + 1]
                  IN  IF Len(b) = 2
                      THEN <<c1, c2, B64Chars[(b[2] % 16) * 4 + 1], "=">>
                      ELSE <<c1, c2,
                             B64Chars[(b[2] % 16) * 4 + (b[3] \div 64) + 1],
                             B64Chars[(b[3] % 64) + 1]>>
                           \o EncodeToString(SubSeq(b, 4, Len(b)))

----------------------------------------------------------------------------
(* The inputs: commands, lines of the structured stream, raw stderr chunks *)

\* A *packersdk.RemoteCmd: nil, or a command text with the two sinks, each
\* present or nil.
NilCmd == [nil |-> TRUE, Command |-> <<>>, Stdout |-> FALSE, Stderr |-> FALSE]

CommandTexts == { <<>>, <<" ", "\t", " ">>, <<"d", "i", "r">> }

Commands ==
    {NilCmd} \cup
    [nil : {FALSE}, Command : CommandTexts, Stdout : BOOLEAN, Stderr : BOOLEAN]

\* One line of the process's stdout, as scanner.Text() delivers it.
\*   blank:   strings.TrimSpace leaves nothing
\*   garbage: json.Unmarshal into streamMessage fails
\*   object:  json.Unmarshal yields the fields stream, data, code
BlankLine   == [kind |-> "blank",   stream |-> "", data |-> <<>>, code |-> 0]
GarbageLine == [kind |-> "garbage", stream |-> "", data |-> <<>>, code |-> 0]
Envelope(s, d, c) == [kind |-> "object", stream |-> s, data |-> d, code |-> c]

OutData == <<"a","G","k","N","C","g","=","=">>     \* base64 of "hi\r\n"
ErrData == <<"Z","Q","0","K">>                     \* base64 of "e\r\n"
BadData == <<"a","G","k">>                         \* no multiple of four

OutLine     == Envelope("stdout", OutData, 0)
ErrLine     == Envelope("stderr", ErrData, 0)
OutBadLine  == Envelope("stdout", BadData, 0)
ErrBadLine  == Envelope("stderr", BadData, 0)
OtherLine   == Envelope("debug", <<>>, 0)
ExitLine(c) == Envelope("exit", <<>>, c)

ExitCodes == {0, 7}

\* The lines a structured stream is made of.
StreamLines ==
    {BlankLine, GarbageLine, OutLine, ErrLine, OutBadLine, ErrBadLine, OtherLine}
    \cup {ExitLine(c) : c \in ExitCodes}

\* The lines the spawned process writes while the four goroutines run.
ProcLines ==
    {GarbageLine, OutLine, ErrLine} \cup {ExitLine(c) : c \in ExitCodes}

\* The readers consumeMessages is run on by itself: every stream of at most
\* MaxInput lines.
InputStreams == UNION {[1..n -> StreamLines] : n \in 0..MaxInput}

\* The bytes of the line {"stream":"exit","code":7}, newline included.
ExitEnvelopeBytes ==
    <<123, 34, 115, 116, 114, 101, 97, 109, 34, 58, 34, 101, 120, 105, 116, 34,
      44, 34, 99, 111, 100, 101, 34, 58, 55, 125, 10>>

\* A chunk on the raw stderr: a line that would be an exit envelope on the
\* structured stream.
RawChunks == { ExitEnvelopeBytes }

\* The errors runner.Stream fails with.
StreamErrs == { "cannot find PowerShell in PATH", "exec: start failed" }

----------------------------------------------------------------------------
(* The state *)

VARIABLES
    comm,        \* the Communicator: vmName and config
    cmd,         \* the RemoteCmd given to Start
    ctxDone,     \* ctx.Done() is closed
    startRet,    \* what Start returned: "pending" before the call
    streamCalls, \* the calls of runner.Stream, in order
    exitCalls,   \* number of calls of cmd.SetExited
    exitStatus,  \* the status the last SetExited stored
    stdoutSink,  \* the writes cmd.Stdout received, in order
    stderrSink,  \* the writes cmd.Stderr received, in order
    procState,   \* the spawned process: "none", "running", "exited"
    hasOut,      \* process.Stdout() is not nil
    hasErr,      \* process.Stderr() is not nil
    sent,        \* the lines the process wrote to its stdout, in order
    fetched,     \* how many of them the scanner has read into its buffer
    scanned,     \* how many of them scanner.Scan() has delivered
    outClosed,   \* stdout.Close() was called
    rawSent,     \* the chunks the process wrote to its stderr, in order
    rawRead,     \* how many of them io.Copy has read
    errClosed,   \* stderr.Close() was called
    doneCh,      \* the done channel is closed
    killCalls,   \* number of calls of process.Kill
    watchPc,     \* completion watcher goroutine
    cancelPc,    \* cancellation watcher goroutine
    pumpPc,      \* consumeMessages goroutine
    exitHandled, \* consumeMessages' local exitHandled
    exitCode,    \* consumeMessages' local exitCode
    rawPc,       \* raw stderr goroutine
    waitErr,     \* process.Wait() returns (or will return) an error
    streamErr,   \* the error runner.Stream returned: "" for none
    runCalls,    \* the calls of runner.Run, in order
    outputCalls, \* the calls of runner.Output, in order
    host,        \* the host: runtime.GOOS, wsl.IsWSL(), the working directory
    call,        \* the transfer operation called, with its arguments
    includeRoot, \* the local includeRoot of UploadDir and DownloadDir
    madeDirs,    \* the directories os.MkdirAll created
    xferRet,     \* what the transfer operation returned: "pending" before
    tempFile,    \* the temporary file of Upload and Download
    hostLog,     \* what the transfer operation did on the host, in order
    input,       \* the io.Reader given to Upload
    output,      \* the io.Writer given to Download
    esp,         \* an execStreamProcess and the calls of its Wait and Kill
    newRet,      \* what New returned
    step,        \* StepConnectPowerShellDirect, its state bag and its result
    b64,         \* a string given to decodeBase64, and what it returned
    vh,          \* StepValidateHost, the host it runs on and its result
    nb,          \* the null builder: what Prepare is given and what it leaves
    stg          \* powershellRunner.Stream: its faults, the staged script, its result

fileVars == <<tempFile, hostLog, input, output>>

\* What neither Start nor the transfer operations touch.
restVars == <<esp, newRet, step, b64, vh, nb, stg>>

xferVars == <<runCalls, outputCalls, host, call, includeRoot, madeDirs, xferRet,
              fileVars, restVars>>

cmdVars  == <<comm, cmd, startRet, streamCalls, streamErr, xferVars>>
exitVars == <<exitCalls, exitStatus>>
sinkVars == <<stdoutSink, stderrSink>>
procVars == <<procState, waitErr, hasOut, hasErr, sent, rawSent>>
outVars  == <<fetched, scanned, outClosed, exitHandled, exitCode>>
errVars  == <<rawRead, errClosed>>
taskVars == <<watchPc, cancelPc, pumpPc, rawPc>>

vars == <<comm, cmd, ctxDone, startRet, streamCalls, exitCalls, exitStatus,
          stdoutSink, stderrSink, procState, hasOut, hasErr, sent, fetched,
          scanned, outClosed, rawSent, rawRead, errClosed, doneCh, killCalls,
          watchPc, cancelPc, pumpPc, exitHandled, exitCode, rawPc, waitErr,
          streamErr, runCalls, outputCalls, host, call, includeRoot, madeDirs,
          xferRet, tempFile, hostLog, input, output, esp, newRet, step>>

\* No temporary file, nothing done on the host, no reader and no writer.
NoFile == [exists |-> FALSE, open |-> FALSE, content |-> <<>>]

NilReader == [nil |-> TRUE, data |-> <<>>, err |-> FALSE]

NilWriter == [nil |-> TRUE, limit |-> 0, buf |-> <<>>]

FileInit ==
    /\ tempFile = NoFile
    /\ hostLog = <<>>
    /\ input = NilReader
    /\ output = NilWriter

\* No stream process, no call of New, no step run.
NoCallYet ==
    [op |-> "none", pc |-> "idle", err |-> "", ret |-> "pending",
     afterWait |-> FALSE, overlapped |-> FALSE]

NoProc ==
    [started |-> FALSE, debug |-> FALSE, alive |-> FALSE, exitErr |-> FALSE,
     reaped |-> FALSE, once |-> "fresh", cleanups |-> 0, script |-> FALSE,
     calls |-> [i \in 1..MaxCalls |-> NoCallYet]]

\* An entry of the step's state bag: absent, or a value that is a string or
\* something else.
Absent == [has |-> FALSE, isString |-> FALSE, val |-> <<>>]

Str(v) == [has |-> TRUE, isString |-> TRUE, val |-> v]

NilConfig == [nil |-> TRUE, VMName |-> <<>>, Username |-> <<>>, Password |-> <<>>]

EmptyBag ==
    [vmName |-> Absent, instance_id |-> Absent, error |-> "", communicator |-> "none"]

NoStep ==
    [ran |-> FALSE, Config |-> NilConfig, Factory |-> "nil", given |-> EmptyBag,
     state |-> EmptyBag, action |-> "none", factoryCalls |-> <<>>]

\* decodeBase64 not called.
NoDecode ==
    [value |-> <<>>, encoded |-> FALSE, plain |-> <<>>,
     called |-> FALSE, err |-> FALSE, bytes |-> <<>>]

\* New not called.
NoNew ==
    [called |-> FALSE, err |-> "", vmName |-> <<>>,
     cfg |-> [VMName |-> <<>>, Username |-> <<>>, Password |-> <<>>]]

\* StepValidateHost not run.
NoValidate ==
    [ran |-> FALSE, EnableVirtualizationExtensions |-> FALSE, RamSize |-> 0,
     virtExt |-> "supported", freeMB |-> 0, error |-> "", action |-> "none",
     virtCalls |-> 0, says |-> <<>>, uiErrors |-> <<>>]

\* Prepare not called.
NoPrepare ==
    [called |-> FALSE, decodeFails |-> FALSE, commFails |-> FALSE, failed |-> FALSE,
     VMName |-> <<>>, Type |-> <<>>,
     PowerShellDirect |-> [VMName |-> <<>>, Username |-> <<>>, Password |-> <<>>]]

\* Stream not called.
NoStream ==
    [called |-> FALSE, script |-> "", fault |-> "none", wsl |-> FALSE,
     debug |-> FALSE, handle |-> FALSE, err |-> "", filename |-> "",
     cleanup |-> "none", left |-> {}]

RestInit ==
    /\ esp = NoProc
    /\ newRet = NoNew
    /\ step = NoStep
    /\ b64 = NoDecode
    /\ vh = NoValidate
    /\ nb = [given |-> NoPrepare, config |-> NoPrepare]
    /\ stg = NoStream

\* The host the tests run on, and the state before any transfer operation.
TestHost == [goos |-> "linux", wsl |-> FALSE]

NoCall == [op |-> "none", src |-> <<>>, dst |-> <<>>, exclude |-> <<>>]

\* newTestCommunicator: the communicator the tests construct.
newTestCommunicator ==
    [vmName |-> "test-vm",
     config |-> [VMName |-> "test-vm", Username |-> "user", Password |-> "pass"]]

Init ==
    /\ comm = newTestCommunicator
    /\ cmd = NilCmd
    /\ ctxDone = FALSE
    /\ startRet = "pending"
    /\ streamCalls = <<>>
    /\ exitCalls = 0
    /\ exitStatus = 0
    /\ stdoutSink = <<>>
    /\ stderrSink = <<>>
    /\ procState = "none"
    /\ hasOut = FALSE
    /\ hasErr = FALSE
    /\ sent = <<>>
    /\ fetched = 0
    /\ scanned = 0
    /\ outClosed = FALSE
    /\ rawSent = <<>>
    /\ rawRead = 0
    /\ errClosed = FALSE
    /\ doneCh = FALSE
    /\ killCalls = 0
    /\ watchPc = "idle"
    /\ cancelPc = "idle"
    /\ pumpPc = "idle"
    /\ exitHandled = FALSE
    /\ exitCode = commandFailureStatus
    /\ rawPc = "idle"
    /\ waitErr = FALSE
    /\ streamErr = ""
    /\ runCalls = <<>>
    /\ outputCalls = <<>>
    /\ host = TestHost
    /\ call = NoCall
    /\ includeRoot = FALSE
    /\ madeDirs = {}
    /\ xferRet = "pending"
    /\ FileInit
    /\ RestInit

----------------------------------------------------------------------------
(* Communicator.Start *)

\* cmd.SetExited(status): store the status and close the command's exit channel.
SetExited(status) ==
    /\ exitCalls' = exitCalls + 1
    /\ exitStatus' = status

\* Mutant of StartNil: the nil check comes after the call of runner.Stream.
StartNilAfterSpawn(c) ==
    /\ c.nil
    /\ cmd' = c
    /\ streamCalls' = Append(streamCalls, [script |-> executeCommandScript, params |-> <<>>])
    /\ startRet' = "errNilCmd"
    /\ UNCHANGED <<comm, xferVars, streamErr, ctxDone, exitVars, sinkVars, procVars,
                   outVars, errVars, doneCh, killCalls, taskVars>>

\* if cmd == nil { return errors.New(...) }
StartNil(c) ==
    /\ c.nil
    /\ cmd' = c
    /\ startRet' = "errNilCmd"
    /\ UNCHANGED <<comm, xferVars, streamErr, ctxDone, streamCalls, exitVars, sinkVars, procVars,
                   outVars, errVars, doneCh, killCalls, taskVars>>

\* Mutant of StartBlank: returns nil without resolving the exit status.
StartBlankNoExit(c) ==
    /\ ~c.nil
    /\ TrimSpace(c.Command) = <<>>
    /\ cmd' = c
    /\ startRet' = "nil"
    /\ UNCHANGED <<comm, xferVars, streamErr, ctxDone, streamCalls, exitVars, sinkVars, procVars,
                   outVars, errVars, doneCh, killCalls, taskVars>>

\* Mutant of StartBlank: the cancellation check comes before the blank check.
StartBlankAfterCancel(c) ==
    /\ ~c.nil
    /\ TrimSpace(c.Command) = <<>>
    /\ cmd' = c
    /\ IF ctxDone
         THEN startRet' = "ctxErr" /\ UNCHANGED exitVars
         ELSE startRet' = "nil" /\ SetExited(0)
    /\ UNCHANGED <<comm, xferVars, streamErr, ctxDone, streamCalls, sinkVars, procVars,
                   outVars, errVars, doneCh, killCalls, taskVars>>

\* if strings.TrimSpace(cmd.Command) == "" { cmd.SetExited(0); return nil }
StartBlank(c) ==
    /\ ~c.nil
    /\ TrimSpace(c.Command) = <<>>
    /\ cmd' = c
    /\ SetExited(0)
    /\ startRet' = "nil"
    /\ UNCHANGED <<comm, xferVars, streamErr, ctxDone, streamCalls, sinkVars, procVars,
                   outVars, errVars, doneCh, killCalls, taskVars>>

\* Mutant of StartCanceled: the cancellation check comes after the spawn.
StartCanceledAfterSpawn(c) ==
    /\ ~c.nil
    /\ TrimSpace(c.Command) # <<>>
    /\ ctxDone
    /\ cmd' = c
    /\ streamCalls' = Append(streamCalls, [script |-> executeCommandScript, params |-> <<>>])
    /\ startRet' = "ctxErr"
    /\ UNCHANGED <<comm, xferVars, streamErr, ctxDone, exitVars, sinkVars, procVars,
                   outVars, errVars, doneCh, killCalls, taskVars>>

\* select { case <-ctx.Done(): return ctx.Err(); default: }
StartCanceled(c) ==
    /\ ~c.nil
    /\ TrimSpace(c.Command) # <<>>
    /\ ctxDone
    /\ cmd' = c
    /\ startRet' = "ctxErr"
    /\ UNCHANGED <<comm, xferVars, streamErr, ctxDone, streamCalls, exitVars, sinkVars, procVars,
                   outVars, errVars, doneCh, killCalls, taskVars>>

\* Mutant of StreamCall: the password is passed before the user name.
StreamCallSwapped(c) ==
    [script |-> executeCommandScript,
     params |-> <<comm.vmName, comm.config.Password, comm.config.Username, c.Command>>]

\* The call c.runner.Stream(executeCommandScript, vmName, Username, Password, Command).
StreamCall(c) ==
    [script |-> executeCommandScript,
     params |-> <<comm.vmName, comm.config.Username, comm.config.Password, c.Command>>]

\* Mutant of StartSpawnFail: the error is noted and the goroutines are launched
\* all the same, on a process that is not there.
StartSpawnFailLaunches(c, e) ==
    /\ ~c.nil
    /\ TrimSpace(c.Command) # <<>>
    /\ ~ctxDone
    /\ cmd' = c
    /\ streamCalls' = Append(streamCalls, StreamCall(c))
    /\ streamErr' = e
    /\ startRet' = e
    /\ watchPc' = "wait"
    /\ cancelPc' = "select"
    /\ pumpPc' = "run"
    /\ rawPc' = "run"
    /\ UNCHANGED <<comm, xferVars, ctxDone, exitVars, sinkVars, procVars,
                   outVars, errVars, doneCh, killCalls>>

\* runner.Stream fails with the error e: if err != nil { return err }
StartSpawnFail(c, e) ==
    /\ ~c.nil
    /\ TrimSpace(c.Command) # <<>>
    /\ ~ctxDone
    /\ cmd' = c
    /\ streamCalls' = Append(streamCalls, StreamCall(c))
    /\ streamErr' = e
    /\ startRet' = e
    /\ UNCHANGED <<comm, xferVars, ctxDone, exitVars, sinkVars, procVars,
                   outVars, errVars, doneCh, killCalls, taskVars>>

\* Mutant of StartDispatch: Start waits for the process before it returns.
StartDispatchWaits(c, out, err) ==
    /\ ~c.nil
    /\ TrimSpace(c.Command) # <<>>
    /\ ~ctxDone
    /\ cmd' = c
    /\ streamCalls' = Append(streamCalls, StreamCall(c))
    /\ procState' = "running"
    /\ hasOut' = out
    /\ hasErr' = err
    /\ watchPc' = "wait"
    /\ cancelPc' = "select"
    /\ pumpPc' = "run"
    /\ rawPc' = "run"
    /\ startRet' = "waiting"
    /\ UNCHANGED <<comm, xferVars, streamErr, ctxDone, exitVars, sinkVars, waitErr,
                   sent, rawSent, outVars, errVars, doneCh, killCalls>>

\* runner.Stream returns a process, whose Stdout() and Stderr() may each be nil;
\* Start launches the four goroutines and returns nil.
StartDispatch(c, out, err) ==
    /\ ~c.nil
    /\ TrimSpace(c.Command) # <<>>
    /\ ~ctxDone
    /\ cmd' = c
    /\ streamCalls' = Append(streamCalls, StreamCall(c))
    /\ procState' = "running"
    /\ hasOut' = out
    /\ hasErr' = err
    /\ watchPc' = "wait"
    /\ cancelPc' = "select"
    /\ pumpPc' = "run"
    /\ rawPc' = "run"
    /\ startRet' = "nil"
    /\ UNCHANGED <<comm, xferVars, streamErr, ctxDone, exitVars, sinkVars, waitErr,
                   sent, rawSent,
                   outVars, errVars, doneCh, killCalls>>

Start ==
    /\ startRet = "pending"
    /\ \E c \in Commands :
          \/ StartNil(c)
          \/ StartBlank(c)
          \/ StartCanceled(c)
          \/ \E e \in StreamErrs : StartSpawnFail(c, e)
          \/ \E out \in BOOLEAN, err \in BOOLEAN : StartDispatch(c, out, err)

\* The caller's context is cancelled (at any time, also before Start).
Cancel ==
    /\ ~ctxDone
    /\ ctxDone' = TRUE
    /\ UNCHANGED <<cmdVars, exitVars, sinkVars, procVars, outVars, errVars,
                   doneCh, killCalls, taskVars>>

----------------------------------------------------------------------------
(* The spawned process *)

\* The process writes one line to its stdout.
ProcEmit ==
    /\ procState = "running"
    /\ hasOut
    /\ Len(sent) < MaxLines
    /\ \E l \in ProcLines : sent' = Append(sent, l)
    /\ UNCHANGED <<cmdVars, ctxDone, exitVars, sinkVars, procState, waitErr,
                   hasOut, hasErr, rawSent, outVars, errVars, doneCh, killCalls, taskVars>>

\* The process writes one chunk to its stderr.
ProcEmitRaw ==
    /\ procState = "running"
    /\ hasErr
    /\ Len(rawSent) < MaxRaw
    /\ \E ch \in RawChunks : rawSent' = Append(rawSent, ch)
    /\ UNCHANGED <<cmdVars, ctxDone, exitVars, sinkVars, procState, waitErr,
                   hasOut, hasErr, sent, outVars, errVars, doneCh, killCalls, taskVars>>

\* The process exits on its own: with status 0, or with another status, which
\* process.Wait() reports as an error.
ProcExit ==
    /\ procState = "running"
    /\ procState' = "exited"
    /\ waitErr' \in BOOLEAN
    /\ UNCHANGED <<cmdVars, ctxDone, exitVars, sinkVars, hasOut, hasErr, sent,
                   rawSent, outVars, errVars, doneCh, killCalls, taskVars>>

----------------------------------------------------------------------------
(* The completion watcher: go func() { defer close(done); Wait; Close; Close } *)

\* Mutant of WatchWait: the watcher goes on to close the streams without
\* waiting for the process.
WatchWaitSkipped ==
    /\ watchPc = "wait"
    /\ watchPc' = "closeStdout"
    /\ UNCHANGED <<cmdVars, ctxDone, exitVars, sinkVars, procVars, outVars,
                   errVars, doneCh, killCalls, cancelPc, pumpPc, rawPc>>

\* process.Wait() returns once the process has exited.
WatchWait ==
    /\ watchPc = "wait"
    /\ procState = "exited"
    /\ watchPc' = "closeStdout"
    /\ UNCHANGED <<cmdVars, ctxDone, exitVars, sinkVars, procVars, outVars,
                   errVars, doneCh, killCalls, cancelPc, pumpPc, rawPc>>

\* if stdout != nil { _ = stdout.Close() }
WatchCloseStdout ==
    /\ watchPc = "closeStdout"
    /\ outClosed' = (hasOut \/ outClosed)
    /\ watchPc' = "closeStderr"
    /\ UNCHANGED <<cmdVars, ctxDone, exitVars, sinkVars, procVars, fetched,
                   scanned, exitHandled, exitCode, errVars, doneCh, killCalls,
                   cancelPc, pumpPc, rawPc>>

\* if stderr != nil { _ = stderr.Close() }
WatchCloseStderr ==
    /\ watchPc = "closeStderr"
    /\ errClosed' = (hasErr \/ errClosed)
    /\ watchPc' = "signal"
    /\ UNCHANGED <<cmdVars, ctxDone, exitVars, sinkVars, procVars, outVars,
                   rawRead, doneCh, killCalls, cancelPc, pumpPc, rawPc>>

\* defer close(done)
WatchDone ==
    /\ watchPc = "signal"
    /\ doneCh' = TRUE
    /\ watchPc' = "end"
    /\ UNCHANGED <<cmdVars, ctxDone, exitVars, sinkVars, procVars, outVars,
                   errVars, killCalls, cancelPc, pumpPc, rawPc>>

----------------------------------------------------------------------------
(* The cancellation watcher: select { case <-ctx.Done(): Kill; case <-done: } *)

\* process.Kill(): the process is terminated if it still runs.
Kill(st) == IF st = "running" THEN "exited" ELSE st

\* Mutant of CancelKill: the watcher ends on cancellation without killing.
CancelKillSkipped ==
    /\ cancelPc = "select"
    /\ ctxDone
    /\ cancelPc' = "end"
    /\ UNCHANGED <<cmdVars, ctxDone, exitVars, sinkVars, procVars, outVars,
                   errVars, doneCh, killCalls, watchPc, pumpPc, rawPc>>

\* Mutant of CancelDone: the watcher kills the process on the done event too.
CancelDoneKills ==
    /\ cancelPc = "select"
    /\ doneCh
    /\ procState' = Kill(procState)
    /\ waitErr' = (waitErr \/ procState = "running")
    /\ killCalls' = killCalls + 1
    /\ cancelPc' = "end"
    /\ UNCHANGED <<cmdVars, ctxDone, exitVars, sinkVars, hasOut, hasErr, sent,
                   rawSent, outVars, errVars, doneCh, watchPc, pumpPc, rawPc>>

CancelKill ==
    /\ cancelPc = "select"
    /\ ctxDone
    /\ procState' = Kill(procState)
    /\ waitErr' = (waitErr \/ procState = "running")
    /\ killCalls' = killCalls + 1
    /\ cancelPc' = "end"
    /\ UNCHANGED <<cmdVars, ctxDone, exitVars, sinkVars, hasOut, hasErr, sent,
                   rawSent, outVars, errVars, doneCh, watchPc, pumpPc, rawPc>>

CancelDone ==
    /\ cancelPc = "select"
    /\ doneCh
    /\ cancelPc' = "end"
    /\ UNCHANGED <<cmdVars, ctxDone, exitVars, sinkVars, procVars, outVars,
                   errVars, doneCh, killCalls, watchPc, pumpPc, rawPc>>

----------------------------------------------------------------------------
(* The structured stdout pump: Communicator.consumeMessages *)

\* One Write call on a sink: who wrote, and either payload bytes or (warn # "")
\* a diagnostic message formatted by fmt.Fprintf.
PumpWrite(b) == [by |-> "pump", warn |-> "", bytes |-> b]
PumpWarn(w)  == [by |-> "pump", warn |-> w,  bytes |-> <<>>]
RawWrite(b)  == [by |-> "raw",  warn |-> "", bytes |-> b]
RawWarn(w)   == [by |-> "raw",  warn |-> w,  bytes |-> <<>>]

\* json.Unmarshal([]byte(line), &msg)
Unmarshal(line) ==
    [err |-> line.kind # "object",
     msg |-> [Stream |-> line.stream, Data |-> line.data, Code |-> line.code]]

\* What one iteration of the scan loop does: the writes to the two sinks, whether
\* it handled an exit envelope (and with which code), whether it returns.
Skip == [out |-> <<>>, err |-> <<>>, exit |-> FALSE, code |-> 0, stop |-> FALSE]

\* if cmd.Stderr != nil { fmt.Fprintf(cmd.Stderr, ...) }
WarnIfStderr(c, w) ==
    IF c.Stderr THEN [Skip EXCEPT !.err = <<PumpWarn(w)>>] ELSE Skip

\* Mutant of caseStdout: a payload that does not decode ends the command with
\* the failure status.
caseStdoutFatal(msg, c) ==
    IF ~c.Stdout THEN Skip
    ELSE LET d == decodeBase64(msg.Data)
         IN  IF d.err
             THEN [Skip EXCEPT !.exit = TRUE, !.code = commandFailureStatus, !.stop = TRUE]
             ELSE IF Len(d.bytes) > 0
                  THEN [Skip EXCEPT !.out = <<PumpWrite(d.bytes)>>]
                  ELSE Skip

\* Mutant of caseStdout: cmd.Stdout is written without the nil check.
caseStdoutNoNilCheck(msg, c) ==
    LET d == decodeBase64(msg.Data)
    IN  IF d.err THEN WarnIfStderr(c, "decode stdout payload")
        ELSE IF Len(d.bytes) > 0
             THEN [Skip EXCEPT !.out = <<PumpWrite(d.bytes)>>]
             ELSE Skip

\* case "stdout"
caseStdout(msg, c) ==
    IF ~c.Stdout THEN Skip
    ELSE LET d == decodeBase64(msg.Data)
         IN  IF d.err THEN WarnIfStderr(c, "decode stdout payload")
             ELSE IF Len(d.bytes) > 0
                  THEN [Skip EXCEPT !.out = <<PumpWrite(d.bytes)>>]
                  ELSE Skip

\* case "stderr"
caseStderr(msg, c) ==
    IF ~c.Stderr THEN Skip
    ELSE LET d == decodeBase64(msg.Data)
         IN  IF d.err THEN [Skip EXCEPT !.err = <<PumpWarn("decode stderr payload")>>]
             ELSE IF Len(d.bytes) > 0
                  THEN [Skip EXCEPT !.err = <<PumpWrite(d.bytes)>>]
                  ELSE Skip

\* Mutant of caseExit: the case does not return, the loop goes on.
caseExitNoReturn(msg, c) ==
    [Skip EXCEPT !.exit = TRUE, !.code = msg.Code]

\* case "exit": exitHandled = true; exitCode = msg.Code; cmd.SetExited(exitCode); return
caseExit(msg, c) ==
    [Skip EXCEPT !.exit = TRUE, !.code = msg.Code, !.stop = TRUE]

\* default
caseDefault(msg, c) == WarnIfStderr(c, "unexpected stream message type")

\* The body of for scanner.Scan() { ... } for one line.
consumeLine(line, c) ==
    IF line.kind = "blank" THEN Skip
    ELSE LET u == Unmarshal(line)
         IN  IF u.err THEN WarnIfStderr(c, "decode stream message")
             ELSE IF u.msg.Stream = "stdout" THEN caseStdout(u.msg, c)
             ELSE IF u.msg.Stream = "stderr" THEN caseStderr(u.msg, c)
             ELSE IF u.msg.Stream = "exit"   THEN caseExit(u.msg, c)
             ELSE caseDefault(u.msg, c)

\* consumeLine tabulated over the lines and commands of the model, so that it is
\* computed once.
LineEffect ==
    [p \in StreamLines \X Commands |-> consumeLine(p[1], p[2])] @@ <<>>

\* if reader == nil { cmd.SetExited(commandFailureStatus); return }
PumpNil ==
    /\ pumpPc = "run"
    /\ ~hasOut
    /\ SetExited(commandFailureStatus)
    /\ pumpPc' = "end"
    /\ UNCHANGED <<cmdVars, ctxDone, sinkVars, procVars, outVars, errVars,
                   doneCh, killCalls, watchPc, cancelPc, rawPc>>

\* scanner.Scan() with no complete line buffered reads from the pipe: it gets
\* some or all of the lines written so far.
PumpRead ==
    /\ pumpPc = "run"
    /\ hasOut
    /\ scanned = fetched
    /\ ~outClosed
    /\ \E n \in (fetched + 1)..Len(sent) : fetched' = n
    /\ UNCHANGED <<cmdVars, ctxDone, exitVars, sinkVars, procVars, scanned,
                   outClosed, exitHandled, exitCode, errVars, doneCh, killCalls,
                   taskVars>>

\* scanner.Scan() delivers the next buffered line and the loop body handles it.
PumpLine ==
    /\ pumpPc = "run"
    /\ hasOut
    /\ scanned < fetched
    /\ LET e == LineEffect[<<sent[scanned + 1], cmd>>]
       IN  /\ scanned' = scanned + 1
           /\ stdoutSink' = stdoutSink \o e.out
           /\ stderrSink' = stderrSink \o e.err
           /\ exitHandled' = (exitHandled \/ e.exit)
           /\ exitCode' = IF e.exit THEN e.code ELSE exitCode
           /\ IF e.exit THEN SetExited(e.code) ELSE UNCHANGED exitVars
           /\ pumpPc' = IF e.stop THEN "end" ELSE "run"
    /\ UNCHANGED <<cmdVars, ctxDone, procVars, fetched, outClosed, errVars,
                   doneCh, killCalls, watchPc, cancelPc, rawPc>>

\* Mutant of afterLoop: the exit status is left unresolved.
afterLoopNoExit ==
    /\ UNCHANGED exitVars
    /\ pumpPc' = "end"

\* Mutant of afterLoop: a stream that ends without an exit envelope is a success.
afterLoopSuccess ==
    /\ IF ~exitHandled THEN SetExited(0) ELSE UNCHANGED exitVars
    /\ pumpPc' = "end"

\* After the loop: if !exitHandled { cmd.SetExited(exitCode) }
afterLoop ==
    /\ IF ~exitHandled THEN SetExited(exitCode) ELSE UNCHANGED exitVars
    /\ pumpPc' = "end"

\* scanner.Scan() meets end of input: the process has exited and the pipe is
\* drained; scanner.Err() is nil.
PumpEOF ==
    /\ pumpPc = "run"
    /\ hasOut
    /\ scanned = fetched
    /\ ~outClosed
    /\ procState = "exited"
    /\ fetched = Len(sent)
    /\ afterLoop
    /\ UNCHANGED <<cmdVars, ctxDone, sinkVars, procVars, outVars, errVars,
                   doneCh, killCalls, watchPc, cancelPc, rawPc>>

\* scanner.Scan() reads from the closed pipe: the read fails, whatever the pipe
\* still held is lost, and scanner.Err() is reported to cmd.Stderr.
PumpReadErr ==
    /\ pumpPc = "run"
    /\ hasOut
    /\ scanned = fetched
    /\ outClosed
    /\ stderrSink' = IF cmd.Stderr
                     THEN Append(stderrSink, PumpWarn("stream read error"))
                     ELSE stderrSink
    /\ afterLoop
    /\ UNCHANGED <<cmdVars, ctxDone, stdoutSink, procVars, outVars, errVars,
                   doneCh, killCalls, watchPc, cancelPc, rawPc>>

----------------------------------------------------------------------------
(* The raw stderr pump: io.Copy(target, stderr) *)

\* if stderr == nil { return }
RawNil ==
    /\ rawPc = "run"
    /\ ~hasErr
    /\ rawPc' = "end"
    /\ UNCHANGED <<cmdVars, ctxDone, exitVars, sinkVars, procVars, outVars,
                   errVars, doneCh, killCalls, watchPc, cancelPc, pumpPc>>

\* Mutant of RawCopy: a chunk that is an exit envelope is decoded and resolves
\* the exit status.
RawCopyDecodes ==
    /\ rawPc = "run"
    /\ hasErr
    /\ ~errClosed
    /\ rawRead < Len(rawSent)
    /\ rawRead' = rawRead + 1
    /\ IF rawSent[rawRead + 1] = ExitEnvelopeBytes
       THEN SetExited(7) /\ UNCHANGED stderrSink
       ELSE /\ UNCHANGED exitVars
            /\ stderrSink' = IF cmd.Stderr
                             THEN Append(stderrSink, RawWrite(rawSent[rawRead + 1]))
                             ELSE stderrSink
    /\ UNCHANGED <<cmdVars, ctxDone, stdoutSink, procVars, outVars,
                   errClosed, doneCh, killCalls, taskVars>>

\* io.Copy reads a chunk and writes it to cmd.Stderr, or to io.Discard.
RawCopy ==
    /\ rawPc = "run"
    /\ hasErr
    /\ ~errClosed
    /\ rawRead < Len(rawSent)
    /\ rawRead' = rawRead + 1
    /\ stderrSink' = IF cmd.Stderr
                     THEN Append(stderrSink, RawWrite(rawSent[rawRead + 1]))
                     ELSE stderrSink
    /\ UNCHANGED <<cmdVars, ctxDone, exitVars, stdoutSink, procVars, outVars,
                   errClosed, doneCh, killCalls, taskVars>>

\* io.Copy meets end of input and returns nil.
RawEOF ==
    /\ rawPc = "run"
    /\ hasErr
    /\ ~errClosed
    /\ procState = "exited"
    /\ rawRead = Len(rawSent)
    /\ rawPc' = "end"
    /\ UNCHANGED <<cmdVars, ctxDone, exitVars, sinkVars, procVars, outVars,
                   errVars, doneCh, killCalls, watchPc, cancelPc, pumpPc>>

\* io.Copy reads from the closed pipe and returns the error:
\* if err != nil && cmd.Stderr != nil { fmt.Fprintf(cmd.Stderr, "%s\n", err.Error()) }
RawErr ==
    /\ rawPc = "run"
    /\ hasErr
    /\ errClosed
    /\ stderrSink' = IF cmd.Stderr
                     THEN Append(stderrSink, RawWarn("copy error"))
                     ELSE stderrSink
    /\ rawPc' = "end"
    /\ UNCHANGED <<cmdVars, ctxDone, exitVars, stdoutSink, procVars, outVars,
                   errVars, doneCh, killCalls, watchPc, cancelPc, pumpPc>>

----------------------------------------------------------------------------
(* The specifications *)

Next ==
    \/ Start
    \/ Cancel
    \/ ProcEmit
    \/ ProcEmitRaw
    \/ ProcExit
    \/ WatchWait
    \/ WatchCloseStdout
    \/ WatchCloseStderr
    \/ WatchDone
    \/ CancelKill
    \/ CancelDone
    \/ PumpNil
    \/ PumpRead
    \/ PumpLine
    \/ PumpEOF
    \/ PumpReadErr
    \/ RawNil
    \/ RawCopy
    \/ RawEOF
    \/ RawErr

Spec == Init /\ [][Next]_vars

\* The four goroutines Start launches.
Watcher       == WatchWait \/ WatchCloseStdout \/ WatchCloseStderr \/ WatchDone
CancelWatcher == CancelKill \/ CancelDone
Pump          == PumpNil \/ PumpRead \/ PumpLine \/ PumpEOF \/ PumpReadErr
RawPump       == RawNil \/ RawCopy \/ RawEOF \/ RawErr

\* The Go scheduler: a goroutine that can take a step eventually takes one.
\* Nothing is assumed of the caller (Start, Cancel) or of the process.
Fairness ==
    /\ WF_vars(Watcher)
    /\ WF_vars(CancelWatcher)
    /\ WF_vars(Pump)
    /\ WF_vars(RawPump)

FairSpec == Spec /\ Fairness

\* consumeMessages run by itself on a reader that holds a whole stream and then
\* reports end of input (the tests' strings.NewReader behind io.NopCloser), or
\* on a nil reader.
PumpInit ==
    /\ comm = newTestCommunicator
    /\ cmd \in {c \in Commands : ~c.nil /\ TrimSpace(c.Command) # <<>>}
    /\ ctxDone = FALSE
    /\ startRet = "nil"
    /\ streamCalls = <<StreamCall(cmd)>>
    /\ exitCalls = 0
    /\ exitStatus = 0
    /\ stdoutSink = <<>>
    /\ stderrSink = <<>>
    /\ procState = "exited"
    /\ hasOut \in BOOLEAN
    /\ hasErr = FALSE
    /\ sent \in (IF hasOut THEN InputStreams ELSE {<<>>})
    /\ fetched = 0
    /\ scanned = 0
    /\ outClosed = FALSE
    /\ rawSent = <<>>
    /\ rawRead = 0
    /\ errClosed = FALSE
    /\ doneCh = FALSE
    /\ killCalls = 0
    /\ watchPc = "idle"
    /\ cancelPc = "idle"
    /\ pumpPc = "run"
    /\ exitHandled = FALSE
    /\ exitCode = commandFailureStatus
    /\ rawPc = "idle"
    /\ waitErr = FALSE
    /\ streamErr = ""
    /\ runCalls = <<>>
    /\ outputCalls = <<>>
    /\ host = TestHost
    /\ call = NoCall
    /\ includeRoot = FALSE
    /\ madeDirs = {}
    /\ xferRet = "pending"
    /\ FileInit
    /\ RestInit

PumpNext == PumpNil \/ PumpRead \/ PumpLine \/ PumpEOF

PumpSpec == PumpInit /\ [][PumpNext]_vars

----------------------------------------------------------------------------
(* The directory transfers: Communicator.UploadDir and Communicator.DownloadDir *)

uploadDirectoryScript == "uploadDirectoryScript"
downloadDirectoryScript == "downloadDirectoryScript"

\* A path is a sequence of characters: the two separators and a letter.
PathChars == {"/", "\\", "d"}

Paths == UNION {[1..n -> PathChars] : n \in 0..MaxPath}

\* The guest-side paths the operations are called with.
GuestPaths == { <<>>, <<"C", ":", "/", "r">>, <<"/", "r", "/">> }

\* The exclude lists: nil, empty, one pattern.
Excludes == { <<>>, <<"*.tmp">> }

\* The hosts: Windows, Linux, and Linux inside WSL.
Hosts ==
    { [goos |-> "windows", wsl |-> FALSE],
      [goos |-> "linux",   wsl |-> FALSE],
      [goos |-> "linux",   wsl |-> TRUE] }

\* What may go wrong on the host during one operation: os.Getwd inside
\* filepath.Abs, os.MkdirAll, the WSL path conversion, the script run.
Faults == [abs : BOOLEAN, mkdir : BOOLEAN, wsl : BOOLEAN, run : BOOLEAN]

NoFault == [abs |-> FALSE, mkdir |-> FALSE, wsl |-> FALSE, run |-> FALSE]

\* strings.HasSuffix(path, ch) for a one-character suffix.
HasSuffix(path, ch) == Len(path) >= 1 /\ path[Len(path)] = ch

\* Mutant of includeSourceRoot: only the forward slash counts as a trailing
\* separator.
includeSourceRootSlashOnly(path) ==
    IF path = <<>> THEN FALSE
    ELSE IF HasSuffix(path, "/") THEN FALSE
    ELSE TRUE

includeSourceRoot(path) ==
    IF path = <<>> THEN FALSE
    ELSE IF HasSuffix(path, "/") \/ HasSuffix(path, "\\") THEN FALSE
    ELSE TRUE

\* strconv.FormatBool
FormatBool(b) == IF b THEN "true" ELSE "false"

\* os.IsPathSeparator and os.PathSeparator of the host.
IsPathSeparator(ch) == ch = "/" \/ (host.goos = "windows" /\ ch = "\\")

Separator == IF host.goos = "windows" THEN "\\" ELSE "/"

\* The working directory of the process.
Getwd == IF host.goos = "windows" THEN <<"C", ":", "\\", "w">> ELSE <<"/", "w">>

\* filepath.IsAbs: a leading separator on Linux, a volume and a separator on
\* Windows.
IsAbs(path) ==
    IF host.goos = "windows"
    THEN Len(path) >= 3 /\ path[2] = ":" /\ IsPathSeparator(path[3])
    ELSE Len(path) >= 1 /\ path[1] = "/"

\* The non-empty elements of a path without volume, each preceded by the
\* host's separator: what filepath.Clean leaves of a path without dots.
RECURSIVE CleanElements(_, _)
CleanElements(path, atStart) ==
    IF path = <<>> THEN <<>>
    ELSE IF IsPathSeparator(Head(path)) THEN CleanElements(Tail(path), TRUE)
    ELSE (IF atStart THEN <<Separator>> ELSE <<>>)
         \o <<Head(path)>> \o CleanElements(Tail(path), FALSE)

\* filepath.Clean of a rooted path without volume.
CleanRooted(path) ==
    LET e == CleanElements(path, TRUE) IN IF e = <<>> THEN <<Separator>> ELSE e

\* filepath.Abs(path): a path that is absolute is cleaned; any other path is
\* resolved against the working directory (on Windows a rooted path against
\* the current volume), which fails when that directory cannot be determined.
Abs(path, f) ==
    IF IsAbs(path)
    THEN [err  |-> "",
          path |-> IF host.goos = "windows"
                   THEN SubSeq(path, 1, 2) \o CleanRooted(SubSeq(path, 3, Len(path)))
                   ELSE CleanRooted(path)]
    ELSE IF f.abs THEN [err |-> "getwd failed", path |-> <<>>]
    ELSE IF host.goos = "windows" /\ Len(path) >= 1 /\ IsPathSeparator(path[1])
    THEN [err |-> "", path |-> SubSeq(Getwd, 1, 2) \o CleanRooted(path)]
    ELSE [err |-> "", path |-> Getwd \o CleanElements(path, TRUE)]

\* wsl.ConvertWSlPathToWindowsPath: the path as the Windows interpreter sees it.
ConvertWSlPathToWindowsPath(path) ==
    <<"\\", "\\", "w", "s", "l", "$">>
        \o [i \in 1..Len(path) |-> IF path[i] = "/" THEN "\\" ELSE path[i]]

\* Communicator.hostPath
hostPath(path, f) ==
    LET absolute == Abs(path, f)
    IN  IF absolute.err # "" THEN absolute
        ELSE IF host.wsl
             THEN IF f.wsl THEN [err |-> "wslpath failed", path |-> <<>>]
                  ELSE [err |-> "", path |-> ConvertWSlPathToWindowsPath(absolute.path)]
             ELSE absolute

\* c.runner.Run(script, vmName, Username, Password, a, b, flag) on the stub
\* runner: the call is recorded, and fails if the script fails.
RunCall(script, a, b, flag, f) ==
    [script |-> script,
     params |-> <<comm.vmName, comm.config.Username, comm.config.Password, a, b, flag>>,
     ret    |-> IF f.run THEN "script failed" ELSE "nil"]

\* What an operation does on the host, as hostLog records it.
MkdirAllEv(path) == [ev |-> "MkdirAll", path |-> path]

RunEv(script) == [ev |-> "Run", script |-> script]

RunVars ==
    <<cmd, ctxDone, startRet, streamCalls, streamErr, exitVars, sinkVars,
      procVars, outVars, errVars, doneCh, killCalls, taskVars>>

\* All of it but the transfer operations' state.
StartVars == <<comm, RunVars, restVars>>

\* What the transfer operations work on.
TransferVars ==
    <<runCalls, outputCalls, host, call, includeRoot, madeDirs, xferRet, fileVars>>

\* Mutant of UploadDir: includeRoot is computed from the host path, which
\* filepath.Abs has cleaned of its trailing separator.
UploadDirFlagFromHostPath(dst, src, exclude, f) ==
    /\ call' = [op |-> "UploadDir", src |-> src, dst |-> dst, exclude |-> exclude]
    /\ IF Len(exclude) > 0
       THEN /\ xferRet' = "errUnsupportedExclude"
            /\ UNCHANGED <<includeRoot, runCalls>>
       ELSE LET hp == hostPath(src, f)
            IN  IF hp.err # ""
                THEN /\ includeRoot' = FALSE
                     /\ xferRet' = hp.err
                     /\ UNCHANGED runCalls
                ELSE LET rc == RunCall(uploadDirectoryScript, hp.path, dst,
                                       FormatBool(includeSourceRoot(hp.path)), f)
                     IN  /\ includeRoot' = includeSourceRoot(hp.path)
                         /\ runCalls' = Append(runCalls, rc)
                         /\ xferRet' = rc.ret
    /\ UNCHANGED <<StartVars, outputCalls, host, madeDirs, fileVars>>

\* Communicator.UploadDir(dst, src, exclude)
UploadDir(dst, src, exclude, f) ==
    /\ call' = [op |-> "UploadDir", src |-> src, dst |-> dst, exclude |-> exclude]
    /\ IF Len(exclude) > 0
       THEN /\ xferRet' = "errUnsupportedExclude"
            /\ UNCHANGED <<includeRoot, runCalls>>
       ELSE LET root == includeSourceRoot(src)
                hp   == hostPath(src, f)
            IN  /\ includeRoot' = root
                /\ IF hp.err # ""
                   THEN /\ xferRet' = hp.err
                        /\ UNCHANGED runCalls
                   ELSE LET rc == RunCall(uploadDirectoryScript, hp.path, dst,
                                          FormatBool(root), f)
                        IN  /\ runCalls' = Append(runCalls, rc)
                            /\ xferRet' = rc.ret
    /\ UNCHANGED <<StartVars, outputCalls, host, madeDirs, fileVars>>

\* Mutant of DownloadDir: the destination directory is created before the
\* exclude list is looked at.
DownloadDirChecksLate(src, dst, exclude, f) ==
    LET destPath == Abs(dst, f)
    IN  /\ call' = [op |-> "DownloadDir", src |-> src, dst |-> dst, exclude |-> exclude]
        /\ IF destPath.err # ""
           THEN /\ xferRet' = destPath.err
                /\ UNCHANGED <<includeRoot, madeDirs, runCalls, hostLog>>
           ELSE /\ madeDirs' = madeDirs \cup {destPath.path}
                /\ hostLog' = Append(hostLog, MkdirAllEv(destPath.path))
                /\ xferRet' = IF Len(exclude) > 0 THEN "errUnsupportedExclude" ELSE "nil"
                /\ UNCHANGED <<includeRoot, runCalls>>
        /\ UNCHANGED <<StartVars, outputCalls, host, tempFile, input, output>>

\* Mutant of DownloadDir: the script is run first, the destination directory
\* created afterwards.
DownloadDirRunsFirst(src, dst, exclude, f) ==
    /\ call' = [op |-> "DownloadDir", src |-> src, dst |-> dst, exclude |-> exclude]
    /\ IF Len(exclude) > 0
       THEN /\ xferRet' = "errUnsupportedExclude"
            /\ UNCHANGED <<includeRoot, madeDirs, runCalls, hostLog>>
       ELSE LET root     == includeSourceRoot(src)
                destPath == Abs(dst, f)
            IN  /\ includeRoot' = root
                /\ IF destPath.err # ""
                   THEN /\ xferRet' = destPath.err
                        /\ UNCHANGED <<madeDirs, runCalls, hostLog>>
                   ELSE LET hp == hostPath(destPath.path, f)
                        IN  IF hp.err # ""
                            THEN /\ xferRet' = hp.err
                                 /\ UNCHANGED <<madeDirs, runCalls, hostLog>>
                            ELSE LET rc == RunCall(downloadDirectoryScript, src,
                                                   hp.path, FormatBool(root), f)
                                 IN  /\ runCalls' = Append(runCalls, rc)
                                     /\ IF f.mkdir
                                        THEN /\ xferRet' = "mkdir failed"
                                             /\ hostLog' = Append(hostLog,
                                                    RunEv(downloadDirectoryScript))
                                             /\ UNCHANGED madeDirs
                                        ELSE /\ xferRet' = rc.ret
                                             /\ madeDirs' = madeDirs \cup {destPath.path}
                                             /\ hostLog' = hostLog \o
                                                    <<RunEv(downloadDirectoryScript),
                                                      MkdirAllEv(destPath.path)>>
    /\ UNCHANGED <<StartVars, outputCalls, host, tempFile, input, output>>

\* Communicator.DownloadDir(src, dst, exclude)
DownloadDir(src, dst, exclude, f) ==
    /\ call' = [op |-> "DownloadDir", src |-> src, dst |-> dst, exclude |-> exclude]
    /\ IF Len(exclude) > 0
       THEN /\ xferRet' = "errUnsupportedExclude"
            /\ UNCHANGED <<includeRoot, madeDirs, runCalls, hostLog>>
       ELSE LET root     == includeSourceRoot(src)
                destPath == Abs(dst, f)
            IN  /\ includeRoot' = root
                /\ IF destPath.err # ""
                   THEN /\ xferRet' = destPath.err
                        /\ UNCHANGED <<madeDirs, runCalls, hostLog>>
                   ELSE IF f.mkdir
                   THEN /\ xferRet' = "mkdir failed"
                        /\ UNCHANGED <<madeDirs, runCalls, hostLog>>
                   ELSE LET hp == hostPath(destPath.path, f)
                        IN  /\ madeDirs' = madeDirs \cup {destPath.path}
                            /\ IF hp.err # ""
                               THEN /\ xferRet' = hp.err
                                    /\ hostLog' = Append(hostLog, MkdirAllEv(destPath.path))
                                    /\ UNCHANGED runCalls
                               ELSE LET rc == RunCall(downloadDirectoryScript, src,
                                                      hp.path, FormatBool(root), f)
                                    IN  /\ runCalls' = Append(runCalls, rc)
                                        /\ hostLog' = hostLog \o
                                              <<MkdirAllEv(destPath.path),
                                                RunEv(downloadDirectoryScript)>>
                                        /\ xferRet' = rc.ret
    /\ UNCHANGED <<StartVars, outputCalls, host, tempFile, input, output>>

----------------------------------------------------------------------------
(* The file transfers: Communicator.Upload and Communicator.Download *)

uploadFileScript == "uploadFileScript"
downloadFileScript == "downloadFileScript"

\* What a reader delivers, and what the script leaves in the temporary file.
FileContents == UNION {[1..n -> {100, 111}] : n \in 0..MaxData}

\* The readers given to Upload: nil, or one that delivers data and then ends,
\* with io.EOF or (err) with an error.
Readers == {NilReader} \cup [nil : {FALSE}, data : FileContents, err : BOOLEAN]

\* The writers given to Download: nil, or one that takes any number of bytes
\* (limit -1), or fails once it has taken limit bytes.
Writers == {NilWriter} \cup [nil : {FALSE}, limit : -1..1, buf : {<<>>}]

\* What may go wrong during a file transfer: os.CreateTemp, the write to the
\* temporary file in io.Copy, its Close, the WSL path conversion, the script
\* run, os.Open.  The temporary file's name is absolute.
FileFaults ==
    [abs : {FALSE}, mkdir : {FALSE}, wsl : BOOLEAN, run : BOOLEAN,
     create : BOOLEAN, copy : BOOLEAN, close : BOOLEAN, open : BOOLEAN]

\* tempFile.Name(): a file in os.TempDir().
TempName ==
    IF host.goos = "windows" THEN <<"C", ":", "\\", "t", "\\", "u">>
                             ELSE <<"/", "t", "/", "u">>

\* os.CreateTemp: a new empty file, open.
CreateTemp == [exists |-> TRUE, open |-> TRUE, content |-> <<>>]

\* (*os.File).Close: the handle is released, whatever Close returns.
Close(file) == [file EXCEPT !.open = FALSE]

\* os.Remove: Windows does not remove a file that is open.
Remove(file) ==
    IF host.goos = "windows" /\ file.open THEN file ELSE NoFile

Ev(name) == [ev |-> name]

CopyEv(n, eof) == [ev |-> "Copy", n |-> n, eof |-> eof]

PopulateEv(content) == [ev |-> "Populate", content |-> content]

WriteEv(n) == [ev |-> "Write", n |-> n]

\* c.runner.Run(script, vmName, Username, Password, a, b) on the stub runner.
RunFileCall(script, a, b, f) ==
    [script |-> script,
     params |-> <<comm.vmName, comm.config.Username, comm.config.Password, a, b>>,
     ret    |-> IF f.run THEN "script failed" ELSE "nil"]

\* io.Copy(tempFile, input): what reached the file, and the error.
CopyIn(in, f) ==
    IF f.copy /\ in.data # <<>>
    THEN [err |-> "write failed", content |-> <<>>, eof |-> FALSE]
    ELSE IF in.err
    THEN [err |-> "read failed", content |-> in.data, eof |-> FALSE]
    ELSE [err |-> "", content |-> in.data, eof |-> TRUE]

\* io.Copy(output, file): what reached the writer, and the error.
CopyOut(out, content) ==
    IF out.limit = -1 \/ out.limit >= Len(content)
    THEN [err |-> "", buf |-> content]
    ELSE [err |-> "write failed", buf |-> SubSeq(content, 1, out.limit)]

\* Mutant of uploadCleanup: the file is removed without being closed first.
uploadCleanupRemoveOnly(file) == Remove(file)

\* Upload's deferred function: tempFile.Close(); os.Remove(tempFile.Name())
uploadCleanup(file) == Remove(Close(file))

\* Upload past the nil check: what it returns, the state the temporary file is
\* left in, what it did in order, and its call of Run if it made one.
UploadBody(path, in, f) ==
    LET cp     == CopyIn(in, f)
        copied == [CreateTemp EXCEPT !.content = cp.content]
        hp     == hostPath(TempName, f)
        rc     == RunFileCall(uploadFileScript, hp.path, path, f)
        start  == <<Ev("CreateTemp"), CopyEv(Len(cp.content), cp.eof)>>
        defers == <<Ev("Close"), Ev("Remove")>>
    IN  IF f.create
        THEN [ret |-> "create temp failed", file |-> NoFile, log |-> <<>>, run |-> <<>>]
        ELSE IF cp.err # ""
        THEN [ret |-> cp.err, file |-> uploadCleanup(copied),
              log |-> start \o defers, run |-> <<>>]
        ELSE IF f.close
        THEN [ret |-> "close failed", file |-> uploadCleanup(Close(copied)),
              log |-> start \o <<Ev("Close")>> \o defers, run |-> <<>>]
        ELSE IF hp.err # ""
        THEN [ret |-> hp.err, file |-> uploadCleanup(Close(copied)),
              log |-> start \o <<Ev("Close")>> \o defers, run |-> <<>>]
        ELSE [ret |-> rc.ret, file |-> uploadCleanup(Close(copied)),
              log |-> start \o <<Ev("Close"), RunEv(uploadFileScript)>> \o defers,
              run |-> <<rc>>]

\* Mutant of Upload: the temporary file is created before the reader is checked.
UploadChecksLate(path, in, f) ==
    /\ call' = [op |-> "Upload", src |-> <<>>, dst |-> path, exclude |-> <<>>]
    /\ input' = in
    /\ xferRet' = IF in.nil THEN "upload input cannot be nil" ELSE "nil"
    /\ tempFile' = IF f.create THEN NoFile ELSE uploadCleanup(CreateTemp)
    /\ hostLog' = IF f.create THEN hostLog
                  ELSE hostLog \o <<Ev("CreateTemp"), Ev("Close"), Ev("Remove")>>
    /\ UNCHANGED <<StartVars, runCalls, outputCalls, host, includeRoot, madeDirs, output>>

\* Mutant of Upload: a failure of io.Copy is not looked at.
UploadIgnoresCopyError(path, in, f) ==
    /\ call' = [op |-> "Upload", src |-> <<>>, dst |-> path, exclude |-> <<>>]
    /\ input' = in
    /\ IF in.nil
       THEN /\ xferRet' = "upload input cannot be nil"
            /\ UNCHANGED <<tempFile, hostLog, runCalls>>
       ELSE LET r == UploadBody(path, [in EXCEPT !.err = FALSE], [f EXCEPT !.copy = FALSE])
                cp == CopyIn(in, f)
            IN  /\ xferRet' = r.ret
                /\ tempFile' = r.file
                /\ hostLog' = IF r.log = <<>> THEN hostLog
                              ELSE hostLog \o <<r.log[1], CopyEv(Len(cp.content), cp.eof)>>
                                           \o SubSeq(r.log, 3, Len(r.log))
                /\ runCalls' = runCalls \o r.run
    /\ UNCHANGED <<StartVars, outputCalls, host, includeRoot, madeDirs, output>>

\* Communicator.Upload(path, input, fi)
Upload(path, in, f) ==
    /\ call' = [op |-> "Upload", src |-> <<>>, dst |-> path, exclude |-> <<>>]
    /\ input' = in
    /\ IF in.nil
       THEN /\ xferRet' = "upload input cannot be nil"
            /\ UNCHANGED <<tempFile, hostLog, runCalls>>
       ELSE LET r == UploadBody(path, in, f)
            IN  /\ xferRet' = r.ret
                /\ tempFile' = r.file
                /\ hostLog' = hostLog \o r.log
                /\ runCalls' = runCalls \o r.run
    /\ UNCHANGED <<StartVars, outputCalls, host, includeRoot, madeDirs, output>>

\* Download past the nil check and os.CreateTemp: the temporary file is closed
\* at once and its removal deferred; the script fills it; it is opened again,
\* copied to the writer, and the deferred calls run last in, first out.
DownloadBody(path, out, content, f) ==
    LET hp     == hostPath(TempName, f)
        rc     == RunFileCall(downloadFileScript, hp.path, path, f)
        closed == Close(CreateTemp)
        filled == [closed EXCEPT !.content = content]
        opened == [filled EXCEPT !.open = TRUE]
        cp     == CopyOut(out, content)
        start  == <<Ev("CreateTemp"), Ev("Close")>>
        ran    == start \o <<RunEv(downloadFileScript)>>
    IN  IF hp.err # ""
        THEN [ret |-> hp.err, file |-> Remove(closed), buf |-> <<>>,
              log |-> start \o <<Ev("Remove")>>, run |-> <<>>]
        ELSE IF rc.ret # "nil"
        THEN [ret |-> rc.ret, file |-> Remove(closed), buf |-> <<>>,
              log |-> ran \o <<Ev("Remove")>>, run |-> <<rc>>]
        ELSE IF f.open
        THEN [ret |-> "open failed", file |-> Remove(filled), buf |-> <<>>,
              log |-> ran \o <<PopulateEv(content), Ev("Remove")>>, run |-> <<rc>>]
        ELSE [ret |-> IF cp.err # "" THEN cp.err ELSE "nil",
              file |-> Remove(Close(opened)), buf |-> cp.buf,
              log |-> ran \o <<PopulateEv(content), Ev("Open"), WriteEv(Len(cp.buf)),
                               Ev("Close"), Ev("Remove")>>,
              run |-> <<rc>>]

\* Mutant of Download: a failure of the script is not looked at, and whatever
\* the temporary file holds is copied to the writer.
DownloadIgnoresRunError(path, out, content, f) ==
    /\ call' = [op |-> "Download", src |-> path, dst |-> <<>>, exclude |-> <<>>]
    /\ UNCHANGED input
    /\ IF out.nil
       THEN /\ xferRet' = "download output cannot be nil"
            /\ output' = out
            /\ UNCHANGED <<tempFile, hostLog, runCalls>>
       ELSE IF f.create
       THEN /\ xferRet' = "create temp failed"
            /\ output' = out
            /\ UNCHANGED <<tempFile, hostLog, runCalls>>
       ELSE LET r  == DownloadBody(path, out, content, [f EXCEPT !.run = FALSE])
                rc == RunFileCall(downloadFileScript, hostPath(TempName, f).path, path, f)
            IN  /\ xferRet' = r.ret
                /\ output' = [out EXCEPT !.buf = r.buf]
                /\ tempFile' = r.file
                /\ hostLog' = hostLog \o r.log
                /\ runCalls' = runCalls \o (IF r.run = <<>> THEN <<>> ELSE <<rc>>)
    /\ UNCHANGED <<StartVars, outputCalls, host, includeRoot, madeDirs>>

\* Communicator.Download(path, output); content is what the script leaves in
\* the temporary file when it succeeds.
Download(path, out, content, f) ==
    /\ call' = [op |-> "Download", src |-> path, dst |-> <<>>, exclude |-> <<>>]
    /\ UNCHANGED input
    /\ IF out.nil
       THEN /\ xferRet' = "download output cannot be nil"
            /\ output' = out
            /\ UNCHANGED <<tempFile, hostLog, runCalls>>
       ELSE IF f.create
       THEN /\ xferRet' = "create temp failed"
            /\ output' = out
            /\ UNCHANGED <<tempFile, hostLog, runCalls>>
       ELSE LET r == DownloadBody(path, out, content, f)
            IN  /\ xferRet' = r.ret
                /\ output' = [out EXCEPT !.buf = r.buf]
                /\ tempFile' = r.file
                /\ hostLog' = hostLog \o r.log
                /\ runCalls' = runCalls \o r.run
    /\ UNCHANGED <<StartVars, outputCalls, host, includeRoot, madeDirs>>

----------------------------------------------------------------------------
(* decodeBase64 on its own: on the encoding of a byte string, or on any    *)
(* short string of alphabet characters, padding, white space and others.   *)

ByteStrings == UNION {[1..n -> {0, 104, 255}] : n \in 1..MaxBytes}

TextChars == {"a", "=", " ", "\n", "-"}

Texts == UNION {[1..n -> TextChars] : n \in 0..MaxText}

DecodeInputs ==
    { [NoDecode EXCEPT !.value = EncodeToString(b), !.encoded = TRUE, !.plain = b] :
         b \in ByteStrings }
    \cup { [NoDecode EXCEPT !.value = t] : t \in Texts }

B64Init ==
    /\ comm = newTestCommunicator
    /\ cmd = NilCmd
    /\ ctxDone = FALSE
    /\ startRet = "pending"
    /\ streamCalls = <<>>
    /\ exitCalls = 0
    /\ exitStatus = 0
    /\ stdoutSink = <<>>
    /\ stderrSink = <<>>
    /\ procState = "none"
    /\ hasOut = FALSE
    /\ hasErr = FALSE
    /\ sent = <<>>
    /\ fetched = 0
    /\ scanned = 0
    /\ outClosed = FALSE
    /\ rawSent = <<>>
    /\ rawRead = 0
    /\ errClosed = FALSE
    /\ doneCh = FALSE
    /\ killCalls = 0
    /\ watchPc = "idle"
    /\ cancelPc = "idle"
    /\ pumpPc = "idle"
    /\ exitHandled = FALSE
    /\ exitCode = commandFailureStatus
    /\ rawPc = "idle"
    /\ waitErr = FALSE
    /\ streamErr = ""
    /\ runCalls = <<>>
    /\ outputCalls = <<>>
    /\ host = TestHost
    /\ call = NoCall
    /\ includeRoot = FALSE
    /\ madeDirs = {}
    /\ xferRet = "pending"
    /\ FileInit
    /\ esp = NoProc
    /\ newRet = NoNew
    /\ step = NoStep
    /\ b64 \in DecodeInputs
    /\ vh = NoValidate
    /\ nb = [given |-> NoPrepare, config |-> NoPrepare]
    /\ stg = NoStream

\* payload, err := decodeBase64(value)
Decode ==
    /\ ~b64.called
    /\ LET r == decodeBase64(b64.value)
       IN  b64' = [b64 EXCEPT !.called = TRUE, !.err = r.err, !.bytes = r.bytes]
    /\ UNCHANGED <<comm, RunVars, TransferVars, esp, newRet, step, vh, nb, stg>>

B64Next == Decode

B64Spec == B64Init /\ [][B64Next]_vars

\* One transfer operation is called, on any host.
TransferInit ==
    /\ comm = newTestCommunicator
    /\ cmd = NilCmd
    /\ ctxDone = FALSE
    /\ startRet = "pending"
    /\ streamCalls = <<>>
    /\ exitCalls = 0
    /\ exitStatus = 0
    /\ stdoutSink = <<>>
    /\ stderrSink = <<>>
    /\ procState = "none"
    /\ hasOut = FALSE
    /\ hasErr = FALSE
    /\ sent = <<>>
    /\ fetched = 0
    /\ scanned = 0
    /\ outClosed = FALSE
    /\ rawSent = <<>>
    /\ rawRead = 0
    /\ errClosed = FALSE
    /\ doneCh = FALSE
    /\ killCalls = 0
    /\ watchPc = "idle"
    /\ cancelPc = "idle"
    /\ pumpPc = "idle"
    /\ exitHandled = FALSE
    /\ exitCode = commandFailureStatus
    /\ rawPc = "idle"
    /\ waitErr = FALSE
    /\ streamErr = ""
    /\ runCalls = <<>>
    /\ outputCalls = <<>>
    /\ host \in Hosts
    /\ call = NoCall
    /\ includeRoot = FALSE
    /\ madeDirs = {}
    /\ xferRet = "pending"
    /\ FileInit
    /\ RestInit

CallUploadDir ==
    /\ xferRet = "pending"
    /\ \E dst \in GuestPaths, src \in Paths, exclude \in Excludes, f \in Faults :
          UploadDir(dst, src, exclude, f)

CallDownloadDir ==
    /\ xferRet = "pending"
    /\ \E src \in GuestPaths, dst \in Paths, exclude \in Excludes, f \in Faults :
          DownloadDir(src, dst, exclude, f)

CallUpload ==
    /\ xferRet = "pending"
    /\ \E path \in GuestPaths, in \in Readers, f \in FileFaults :
          Upload(path, in, f)

CallDownload ==
    /\ xferRet = "pending"
    /\ \E path \in GuestPaths, out \in Writers, content \in FileContents,
          f \in FileFaults :
          Download(path, out, content, f)

TransferNext == CallUploadDir \/ CallDownloadDir \/ CallUpload \/ CallDownload

TransferSpec == TransferInit /\ [][TransferNext]_vars

----------------------------------------------------------------------------
(* New, and the operations on the communicator it returns *)

\* No communicator: what New returns beside an error.
NilComm ==
    [vmName |-> <<>>,
     config |-> [VMName |-> <<>>, Username |-> <<>>, Password |-> <<>>]]

\* The arguments given to New: names and credentials that are empty, blank,
\* or padded with white space.
VMNames == { <<>>, <<" ">>, <<" ", "v">> }

Configs ==
    [VMName   : { <<>>, <<" ", "c", " ">> },
     Username : { <<>>, <<" ">>, <<"u", " ">> },
     Password : { <<>>, <<"\t", "p">> }]

\* Mutant of NewResult: the configured VM name is taken as it is.
NewResultFallbackUntrimmed(vmName, cfg) ==
    LET name == IF TrimSpace(vmName) # <<>> THEN TrimSpace(vmName) ELSE cfg.VMName
        user == TrimSpace(cfg.Username)
        pass == TrimSpace(cfg.Password)
        err  == IF host.goos # "windows" THEN "requires Windows host"
                ELSE IF host.wsl THEN "not supported when running under WSL"
                ELSE IF name = <<>> THEN "vm name must be provided"
                ELSE IF user = <<>> THEN "powershell direct username must be provided"
                ELSE IF pass = <<>> THEN "powershell direct password must be provided"
                ELSE ""
    IN  [err  |-> err,
         comm |-> IF err # "" THEN NilComm
                  ELSE [vmName |-> name,
                        config |-> [cfg EXCEPT !.Username = user, !.Password = pass]]]

\* What New(vmName, cfg, ...) returns on this host.
NewResult(vmName, cfg) ==
    LET trimmed == TrimSpace(vmName)
        name == IF trimmed = <<>> THEN TrimSpace(cfg.VMName) ELSE trimmed
        user == TrimSpace(cfg.Username)
        pass == TrimSpace(cfg.Password)
        err  == IF host.goos # "windows" THEN "requires Windows host"
                ELSE IF host.wsl THEN "not supported when running under WSL"
                ELSE IF name = <<>> THEN "vm name must be provided"
                ELSE IF user = <<>> THEN "powershell direct username must be provided"
                ELSE IF pass = <<>> THEN "powershell direct password must be provided"
                ELSE ""
    IN  [err  |-> err,
         comm |-> IF err # "" THEN NilComm
                  ELSE [vmName |-> name,
                        config |-> [cfg EXCEPT !.Username = user, !.Password = pass]]]

\* New(vmName, cfg, WithRunner(stub))
New(vmName, cfg) ==
    LET r == NewResult(vmName, cfg)
    IN  /\ newRet' = [called |-> TRUE, err |-> r.err, vmName |-> vmName, cfg |-> cfg]
        /\ comm' = r.comm
        /\ UNCHANGED <<RunVars, TransferVars, esp, step, b64, vh, nb, stg>>

NewInit ==
    /\ comm = NilComm
    /\ cmd = NilCmd
    /\ ctxDone = FALSE
    /\ startRet = "pending"
    /\ streamCalls = <<>>
    /\ exitCalls = 0
    /\ exitStatus = 0
    /\ stdoutSink = <<>>
    /\ stderrSink = <<>>
    /\ procState = "none"
    /\ hasOut = FALSE
    /\ hasErr = FALSE
    /\ sent = <<>>
    /\ fetched = 0
    /\ scanned = 0
    /\ outClosed = FALSE
    /\ rawSent = <<>>
    /\ rawRead = 0
    /\ errClosed = FALSE
    /\ doneCh = FALSE
    /\ killCalls = 0
    /\ watchPc = "idle"
    /\ cancelPc = "idle"
    /\ pumpPc = "idle"
    /\ exitHandled = FALSE
    /\ exitCode = commandFailureStatus
    /\ rawPc = "idle"
    /\ waitErr = FALSE
    /\ streamErr = ""
    /\ runCalls = <<>>
    /\ outputCalls = <<>>
    /\ host \in Hosts
    /\ call = NoCall
    /\ includeRoot = FALSE
    /\ madeDirs = {}
    /\ xferRet = "pending"
    /\ FileInit
    /\ RestInit

CallNew ==
    /\ ~newRet.called
    /\ \E vmName \in VMNames, cfg \in Configs : New(vmName, cfg)

\* The operations of the communicator New returned.
Constructed == newRet.called /\ newRet.err = ""

UseStart == Constructed /\ Start

UseUpload == Constructed /\ CallUpload

UseDownload == Constructed /\ CallDownload

UseUploadDir == Constructed /\ CallUploadDir

UseDownloadDir == Constructed /\ CallDownloadDir

NewNext ==
    \/ CallNew
    \/ UseStart
    \/ UseUpload
    \/ UseDownload
    \/ UseUploadDir
    \/ UseDownloadDir

NewSpec == NewInit /\ [][NewNext]_vars

----------------------------------------------------------------------------
(* execStreamProcess: the process powershellRunner.Stream returns, and the *)
(* calls of its Wait and Kill, each on a goroutine of its own              *)

\* What Stream returns: cmd.Start succeeded, so cmd.Process is set and the
\* process runs; the staged script exists; debug is PACKER_POWERSHELL_DEBUG.
Streamed(debug) ==
    [NoProc EXCEPT !.started = TRUE, !.debug = debug, !.alive = TRUE,
                   !.script = TRUE]

ProcInit ==
    /\ comm = newTestCommunicator
    /\ cmd = NilCmd
    /\ ctxDone = FALSE
    /\ startRet = "pending"
    /\ streamCalls = <<>>
    /\ exitCalls = 0
    /\ exitStatus = 0
    /\ stdoutSink = <<>>
    /\ stderrSink = <<>>
    /\ procState = "none"
    /\ hasOut = FALSE
    /\ hasErr = FALSE
    /\ sent = <<>>
    /\ fetched = 0
    /\ scanned = 0
    /\ outClosed = FALSE
    /\ rawSent = <<>>
    /\ rawRead = 0
    /\ errClosed = FALSE
    /\ doneCh = FALSE
    /\ killCalls = 0
    /\ watchPc = "idle"
    /\ cancelPc = "idle"
    /\ pumpPc = "idle"
    /\ exitHandled = FALSE
    /\ exitCode = commandFailureStatus
    /\ rawPc = "idle"
    /\ waitErr = FALSE
    /\ streamErr = ""
    /\ runCalls = <<>>
    /\ outputCalls = <<>>
    /\ host = TestHost
    /\ call = NoCall
    /\ includeRoot = FALSE
    /\ madeDirs = {}
    /\ xferRet = "pending"
    /\ FileInit
    /\ esp \in {Streamed(debug) : debug \in BOOLEAN}
    /\ newRet = NoNew
    /\ step = NoStep
    /\ b64 = NoDecode
    /\ vh = NoValidate
    /\ nb = [given |-> NoPrepare, config |-> NoPrepare]
    /\ stg = NoStream

ProcRest == <<comm, RunVars, TransferVars, newRet, step, b64, vh, nb, stg>>

InProgress(c) == c.pc \notin {"idle", "done"}

\* Some call of Wait has returned.
WaitReturned ==
    \E j \in 1..MaxCalls : esp.calls[j].op = "Wait" /\ esp.calls[j].pc = "done"

\* A call begins at pc while the calls in progress go on.
Begin(i, op, pc) ==
    LET busy == \E j \in 1..MaxCalls : InProgress(esp.calls[j])
    IN  [j \in 1..MaxCalls |->
           IF j = i
           THEN [NoCallYet EXCEPT !.op = op, !.pc = pc, !.afterWait = WaitReturned,
                                  !.overlapped = busy]
           ELSE IF InProgress(esp.calls[j])
           THEN [esp.calls[j] EXCEPT !.overlapped = TRUE]
           ELSE esp.calls[j]]

\* The process ends by itself, with a zero or a non-zero exit status.
ProcessExits ==
    /\ esp.alive
    /\ \E failed \in BOOLEAN :
          esp' = [esp EXCEPT !.alive = FALSE, !.exitErr = failed]
    /\ UNCHANGED ProcRest

\* A goroutine calls p.Wait().
WaitCall(i) ==
    /\ esp.calls[i].op = "none"
    /\ esp' = [esp EXCEPT !.calls = Begin(i, "Wait", "cmdWait")]
    /\ UNCHANGED ProcRest

\* err := p.cmd.Wait(): it returns when the process has ended; the call that
\* reaps the process gets its exit status, every other one an error.
cmdWait(i) ==
    /\ esp.calls[i].pc = "cmdWait"
    /\ ~esp.alive
    /\ esp' = [esp EXCEPT
                 !.reaped = TRUE,
                 !.calls[i].pc = "close",
                 !.calls[i].err =
                     IF esp.reaped THEN "exec: Wait was already called"
                     ELSE IF esp.exitErr THEN "exit status 1"
                     ELSE "nil"]
    /\ UNCHANGED ProcRest

\* A goroutine calls p.Kill(); with no process it returns nil at once.
KillCall(i) ==
    /\ esp.calls[i].op = "none"
    /\ esp' = IF ~esp.started
              THEN [esp EXCEPT !.calls =
                       [Begin(i, "Kill", "done") EXCEPT ![i].err = "nil", ![i].ret = "nil"]]
              ELSE [esp EXCEPT !.calls = Begin(i, "Kill", "kill")]
    /\ UNCHANGED ProcRest

\* err := p.cmd.Process.Kill(): a running process is terminated; one that was
\* waited for gives os.ErrProcessDone; one that has ended and was not waited
\* for gives nil or the system's error, by platform.
processKill(i) ==
    /\ esp.calls[i].pc = "kill"
    /\ \E e \in {"nil", "TerminateProcess: Access is denied."} :
          /\ esp.reaped => e = "nil"
          /\ esp.alive => e = "nil"
          /\ esp' = [esp EXCEPT
                       !.alive = FALSE,
                       !.exitErr = IF esp.alive THEN TRUE ELSE esp.exitErr,
                       !.calls[i].pc = "close",
                       !.calls[i].err =
                           IF esp.reaped THEN "os: process already finished" ELSE e]
    /\ UNCHANGED ProcRest

\* Mutant of close: the cleanup is called without the sync.Once.
closeUnguarded(i) ==
    /\ esp.calls[i].pc = "close"
    /\ esp' = [esp EXCEPT !.calls[i].pc = "cleanup"]
    /\ UNCHANGED ProcRest

\* p.close(): p.once.Do(f) runs f in the first call, waits in a call made
\* while f runs, and does nothing afterward.
close(i) ==
    /\ esp.calls[i].pc = "close"
    /\ esp.once # "running"
    /\ esp' = IF esp.once = "fresh"
              THEN [esp EXCEPT !.once = "running", !.calls[i].pc = "cleanup"]
              ELSE [esp EXCEPT !.calls[i].pc = "return"]
    /\ UNCHANGED ProcRest

\* p.cleanup(): the staged script is removed, unless debugging keeps it.
cleanup(i) ==
    /\ esp.calls[i].pc = "cleanup"
    /\ esp' = [esp EXCEPT
                 !.cleanups = @ + 1,
                 !.script = IF esp.debug THEN @ ELSE FALSE,
                 !.once = "done",
                 !.calls[i].pc = "return"]
    /\ UNCHANGED ProcRest

\* return err
return(i) ==
    /\ esp.calls[i].pc = "return"
    /\ esp' = [esp EXCEPT !.calls[i].pc = "done", !.calls[i].ret = esp.calls[i].err]
    /\ UNCHANGED ProcRest

ProcNext ==
    \/ ProcessExits
    \/ \E i \in 1..MaxCalls :
          \/ WaitCall(i)
          \/ cmdWait(i)
          \/ KillCall(i)
          \/ processKill(i)
          \/ close(i)
          \/ cleanup(i)
          \/ return(i)

ProcSpec == ProcInit /\ [][ProcNext]_vars

----------------------------------------------------------------------------
(* StepConnectPowerShellDirect.Run *)

\* The step's Config: nil, or names and credentials that are empty, blank or
\* padded with white space.
StepConfigs ==
    {NilConfig} \cup
    [nil : {FALSE},
     VMName   : { <<>>, <<" ", "c", " ">> },
     Username : { <<>>, <<"u", " ">> },
     Password : { <<>>, <<" ">>, <<"p">> }]

\* The step's Factory: nil (then powershelldirect.New is used), or a stub
\* that returns a communicator, or one that returns an error.
Factories == {"nil", "ok", "fail"}

\* The state bag the step is run on: vmName absent, not a string, or a
\* string; instance_id absent or present.
Bags ==
    [vmName       : {Absent, [has |-> TRUE, isString |-> FALSE, val |-> <<>>],
                     Str(<<>>), Str(<<" ">>), Str(<<"s">>), Str(<<" ", "s">>)},
     instance_id  : {Absent, Str(<<"i">>)},
     error        : {""},
     communicator : {"none"}]

\* (*PowershellDirectConfig).CommunicatorConfig
CommunicatorConfig(c) ==
    [VMName |-> c.VMName, Username |-> c.Username, Password |-> c.Password]

\* factory(vmName, cfg): the error and the communicator it returns.
FactoryResult(factory, vmName, cfg) ==
    IF factory = "ok" THEN [err |-> "", comm |-> "MockCommunicator"]
    ELSE IF factory = "fail" THEN [err |-> "failed to connect", comm |-> "none"]
    ELSE LET r == NewResult(vmName, cfg)
         IN  [err |-> r.err, comm |-> IF r.err = "" THEN "Communicator" ELSE "none"]

Halt(c, bag, err) ==
    [Config |-> c, state |-> [bag EXCEPT !.error = err], action |-> "ActionHalt",
     factoryCalls |-> <<>>]

\* Mutant of RunResult: the configured VM name comes first, the state's second.
RunResultConfigFirst(c, factory, bag) ==
    IF c.nil THEN Halt(c, bag, "powershell direct configuration is not initialised")
    ELSE IF bag.vmName.has /\ ~bag.vmName.isString
    THEN Halt(c, bag, "vmName is not a valid string")
    ELSE
    LET fromState == TrimSpace(c.VMName)
        vmName    == IF fromState = <<>> THEN TrimSpace(bag.vmName.val) ELSE fromState
        bag1      == IF fromState # <<>>
                     THEN [bag EXCEPT !.vmName = Str(vmName),
                                      !.instance_id =
                                          IF bag.instance_id.has THEN @ ELSE Str(vmName)]
                     ELSE bag
        username  == TrimSpace(c.Username)
        password  == TrimSpace(c.Password)
        c1        == [c EXCEPT !.Username = username, !.Password = password]
        cfg       == CommunicatorConfig(c1)
        r         == FactoryResult(factory, vmName, cfg)
        called    == <<[vmName |-> vmName, cfg |-> cfg]>>
    IN  IF vmName = <<>>
        THEN Halt(c, bag1, "vm name is required")
        ELSE IF username = <<>>
        THEN Halt(c, bag1, "powershell_direct_username must be provided")
        ELSE IF password = <<>>
        THEN Halt(c, bag1, "powershell_direct_password must be provided")
        ELSE IF r.err # ""
        THEN [Config |-> c1, state |-> [bag1 EXCEPT !.error = r.err],
              action |-> "ActionHalt", factoryCalls |-> called]
        ELSE [Config |-> c1, state |-> [bag1 EXCEPT !.communicator = r.comm],
              action |-> "ActionContinue", factoryCalls |-> called]

\* Mutant of RunResult: the password is not checked.
RunResultPasswordUnchecked(c, factory, bag) ==
    IF c.nil THEN Halt(c, bag, "powershell direct configuration is not initialised")
    ELSE IF bag.vmName.has /\ ~bag.vmName.isString
    THEN Halt(c, bag, "vmName is not a valid string")
    ELSE
    LET fromState == TrimSpace(bag.vmName.val)
        vmName    == IF fromState = <<>> THEN TrimSpace(c.VMName) ELSE fromState
        bag1      == IF fromState = <<>> /\ vmName # <<>>
                     THEN [bag EXCEPT !.vmName = Str(vmName),
                                      !.instance_id =
                                          IF bag.instance_id.has THEN @ ELSE Str(vmName)]
                     ELSE bag
        username  == TrimSpace(c.Username)
        password  == TrimSpace(c.Password)
        c1        == [c EXCEPT !.Username = username, !.Password = password]
        cfg       == CommunicatorConfig(c1)
        r         == FactoryResult(factory, vmName, cfg)
        called    == <<[vmName |-> vmName, cfg |-> cfg]>>
    IN  IF vmName = <<>>
        THEN Halt(c, bag1, "vm name is required")
        ELSE IF username = <<>>
        THEN Halt(c, bag1, "powershell_direct_username must be provided")
        ELSE IF r.err # ""
        THEN [Config |-> c1, state |-> [bag1 EXCEPT !.error = r.err],
              action |-> "ActionHalt", factoryCalls |-> called]
        ELSE [Config |-> c1, state |-> [bag1 EXCEPT !.communicator = r.comm],
              action |-> "ActionContinue", factoryCalls |-> called]

\* What Run leaves: the step's Config, the state bag, the action returned and
\* the calls of the factory.
RunResult(c, factory, bag) ==
    IF c.nil THEN Halt(c, bag, "powershell direct configuration is not initialised")
    ELSE IF bag.vmName.has /\ ~bag.vmName.isString
    THEN Halt(c, bag, "vmName is not a valid string")
    ELSE
    LET fromState == TrimSpace(bag.vmName.val)
        vmName    == IF fromState = <<>> THEN TrimSpace(c.VMName) ELSE fromState
        bag1      == IF fromState = <<>> /\ vmName # <<>>
                     THEN [bag EXCEPT !.vmName = Str(vmName),
                                      !.instance_id =
                                          IF bag.instance_id.has THEN @ ELSE Str(vmName)]
                     ELSE bag
        username  == TrimSpace(c.Username)
        password  == TrimSpace(c.Password)
        c1        == [c EXCEPT !.Username = username, !.Password = password]
        cfg       == CommunicatorConfig(c1)
        r         == FactoryResult(factory, vmName, cfg)
        called    == <<[vmName |-> vmName, cfg |-> cfg]>>
    IN  IF vmName = <<>>
        THEN Halt(c, bag1, "vm name is required")
        ELSE IF username = <<>>
        THEN Halt(c, bag1, "powershell_direct_username must be provided")
        ELSE IF password = <<>>
        THEN Halt(c, bag1, "powershell_direct_password must be provided")
        ELSE IF r.err # ""
        THEN [Config |-> c1, state |-> [bag1 EXCEPT !.error = r.err],
              action |-> "ActionHalt", factoryCalls |-> called]
        ELSE [Config |-> c1, state |-> [bag1 EXCEPT !.communicator = r.comm],
              action |-> "ActionContinue", factoryCalls |-> called]

StepInit ==
    /\ comm = newTestCommunicator
    /\ cmd = NilCmd
    /\ ctxDone = FALSE
    /\ startRet = "pending"
    /\ streamCalls = <<>>
    /\ exitCalls = 0
    /\ exitStatus = 0
    /\ stdoutSink = <<>>
    /\ stderrSink = <<>>
    /\ procState = "none"
    /\ hasOut = FALSE
    /\ hasErr = FALSE
    /\ sent = <<>>
    /\ fetched = 0
    /\ scanned = 0
    /\ outClosed = FALSE
    /\ rawSent = <<>>
    /\ rawRead = 0
    /\ errClosed = FALSE
    /\ doneCh = FALSE
    /\ killCalls = 0
    /\ watchPc = "idle"
    /\ cancelPc = "idle"
    /\ pumpPc = "idle"
    /\ exitHandled = FALSE
    /\ exitCode = commandFailureStatus
    /\ rawPc = "idle"
    /\ waitErr = FALSE
    /\ streamErr = ""
    /\ runCalls = <<>>
    /\ outputCalls = <<>>
    /\ host \in Hosts
    /\ call = NoCall
    /\ includeRoot = FALSE
    /\ madeDirs = {}
    /\ xferRet = "pending"
    /\ FileInit
    /\ esp = NoProc
    /\ newRet = NoNew
    /\ \E c \in StepConfigs, factory \in Factories, bag \in Bags :
          step = [NoStep EXCEPT !.Config = c, !.Factory = factory,
                                !.given = bag, !.state = bag]
    /\ b64 = NoDecode
    /\ vh = NoValidate
    /\ nb = [given |-> NoPrepare, config |-> NoPrepare]
    /\ stg = NoStream

\* action := step.Run(ctx, state)
StepConnectPowerShellDirectRun ==
    /\ ~step.ran
    /\ LET r == RunResult(step.Config, step.Factory, step.state)
       IN  step' = [step EXCEPT !.ran = TRUE, !.Config = r.Config, !.state = r.state,
                                !.action = r.action, !.factoryCalls = r.factoryCalls]
    /\ UNCHANGED <<comm, RunVars, TransferVars, esp, newRet, b64, vh, nb, stg>>

StepNext == StepConnectPowerShellDirectRun

StepSpec == StepInit /\ [][StepNext]_vars

----------------------------------------------------------------------------
(* StepValidateHost.Run *)

\* The RAM asked for and the free memory the host reports, in MB, on both
\* sides of the LowRam margin.
RamSizes == {0, 1024}

FreeMemory == {0, 255, 256, 1200, 1279, 1280, 8192}

\* What the detection of virtualization extensions gives when it is called:
\* (true, nil), (false, nil) or an error.
VirtExt == {"supported", "unsupported", "error"}

\* s.checkHostAvailableMemory()
checkHostAvailableMemory(v) ==
    IF v.freeMB - v.RamSize < LowRam
    THEN "Hyper-V might fail to create a VM if there is not enough free memory in the system."
    ELSE ""

\* Mutant of ValidateResult: a host short of memory halts the build.
ValidateResultLowMemoryHalts(v) ==
    LET warning == checkHostAvailableMemory(v)
    IN  IF v.EnableVirtualizationExtensions /\ v.virtExt = "error"
        THEN [v EXCEPT !.ran = TRUE, !.virtCalls = 1, !.action = "ActionHalt",
                       !.error = "failed detecting virtualization extensions support",
                       !.uiErrors = <<"failed detecting virtualization extensions support">>]
        ELSE IF v.EnableVirtualizationExtensions /\ v.virtExt = "unsupported"
        THEN [v EXCEPT !.ran = TRUE, !.virtCalls = 1, !.action = "ActionHalt",
                       !.error = "does not support virtualization extensions",
                       !.uiErrors = <<"does not support virtualization extensions">>]
        ELSE IF warning # ""
        THEN [v EXCEPT !.ran = TRUE,
                       !.virtCalls = IF v.EnableVirtualizationExtensions THEN 1 ELSE 0,
                       !.action = "ActionHalt", !.error = warning,
                       !.uiErrors = <<warning>>]
        ELSE [v EXCEPT !.ran = TRUE,
                       !.virtCalls = IF v.EnableVirtualizationExtensions THEN 1 ELSE 0,
                       !.action = "ActionContinue"]

\* What Run leaves: the action returned, the error put in the state, what
\* was said and reported on the ui, and the calls of the detection.
ValidateResult(v) ==
    LET warning == checkHostAvailableMemory(v)
    IN  IF v.EnableVirtualizationExtensions /\ v.virtExt = "error"
        THEN [v EXCEPT !.ran = TRUE, !.virtCalls = 1, !.action = "ActionHalt",
                       !.error = "failed detecting virtualization extensions support",
                       !.uiErrors = <<"failed detecting virtualization extensions support">>]
        ELSE IF v.EnableVirtualizationExtensions /\ v.virtExt = "unsupported"
        THEN [v EXCEPT !.ran = TRUE, !.virtCalls = 1, !.action = "ActionHalt",
                       !.error = "does not support virtualization extensions",
                       !.uiErrors = <<"does not support virtualization extensions">>]
        ELSE [v EXCEPT !.ran = TRUE,
                       !.virtCalls = IF v.EnableVirtualizationExtensions THEN 1 ELSE 0,
                       !.action = "ActionContinue",
                       !.says = IF warning # "" THEN <<"Warning">> ELSE <<>>]

ValidateInit ==
    /\ comm = newTestCommunicator
    /\ cmd = NilCmd
    /\ ctxDone = FALSE
    /\ startRet = "pending"
    /\ streamCalls = <<>>
    /\ exitCalls = 0
    /\ exitStatus = 0
    /\ stdoutSink = <<>>
    /\ stderrSink = <<>>
    /\ procState = "none"
    /\ hasOut = FALSE
    /\ hasErr = FALSE
    /\ sent = <<>>
    /\ fetched = 0
    /\ scanned = 0
    /\ outClosed = FALSE
    /\ rawSent = <<>>
    /\ rawRead = 0
    /\ errClosed = FALSE
    /\ doneCh = FALSE
    /\ killCalls = 0
    /\ watchPc = "idle"
    /\ cancelPc = "idle"
    /\ pumpPc = "idle"
    /\ exitHandled = FALSE
    /\ exitCode = commandFailureStatus
    /\ rawPc = "idle"
    /\ waitErr = FALSE
    /\ streamErr = ""
    /\ runCalls = <<>>
    /\ outputCalls = <<>>
    /\ host = TestHost
    /\ call = NoCall
    /\ includeRoot = FALSE
    /\ madeDirs = {}
    /\ xferRet = "pending"
    /\ FileInit
    /\ esp = NoProc
    /\ newRet = NoNew
    /\ step = NoStep
    /\ b64 = NoDecode
    /\ \E enable \in BOOLEAN, ram \in RamSizes, virt \in VirtExt, free \in FreeMemory :
          vh = [NoValidate EXCEPT !.EnableVirtualizationExtensions = enable,
                                  !.RamSize = ram, !.virtExt = virt, !.freeMB = free]
    /\ nb = [given |-> NoPrepare, config |-> NoPrepare]
    /\ stg = NoStream

\* action := step.Run(ctx, state)
StepValidateHostRun ==
    /\ ~vh.ran
    /\ vh' = ValidateResult(vh)
    /\ UNCHANGED <<comm, RunVars, TransferVars, esp, newRet, step, b64, nb, stg>>

ValidateNext == StepValidateHostRun

ValidateSpec == ValidateInit /\ [][ValidateNext]_vars

----------------------------------------------------------------------------
(* The null builder's Prepare *)

\* powershelldirect.Type
Type == <<"p","o","w","e","r","s","h","e","l","l","-","d","i","r","e","c","t">>

UpperCase ==
    << "A","B","C","D","E","F","G","H","I","J","K","L","M",
       "N","O","P","Q","R","S","T","U","V","W","X","Y","Z" >>

LowerCase ==
    << "a","b","c","d","e","f","g","h","i","j","k","l","m",
       "n","o","p","q","r","s","t","u","v","w","x","y","z" >>

ToLower(ch) ==
    IF \E i \in 1..26 : UpperCase[i] = ch
    THEN LowerCase[CHOOSE i \in 1..26 : UpperCase[i] = ch]
    ELSE ch

\* strings.EqualFold: equal up to the case of the letters.
EqualFold(a, b) ==
    /\ Len(a) = Len(b)
    /\ \A i \in 1..Len(a) : ToLower(a[i]) = ToLower(b[i])

\* The communicator types a template gives: none, blank, powershell-direct
\* in lower or mixed case, padded, or another communicator.
CommTypes ==
    { <<>>, <<" ">>, Type, <<"P">> \o Tail(Type), <<" ">> \o Type, <<"s", "s", "h">> }

\* The powershell_direct_vm_name a template gives.
BuilderVMNames == { <<>>, <<" ">>, <<"v">>, <<" ", "v">> }

\* What config.Decode leaves in b.config: the template's values; the key
\* powershell_direct_vm_name names two fields, and the embedded one holds
\* the value too or is left empty.
Decoded ==
    { [NoPrepare EXCEPT !.decodeFails = d, !.commFails = cf, !.VMName = v, !.Type = t,
                        !.PowerShellDirect = [VMName   |-> IF both THEN v ELSE <<>>,
                                              Username |-> u, Password |-> pw]] :
        d \in BOOLEAN, cf \in BOOLEAN, v \in BuilderVMNames, t \in CommTypes,
        both \in BOOLEAN, u \in { <<>>, <<"u">> }, pw \in { <<" ">>, <<"p">> } }

\* (*PowershellDirectConfig).Prepare: the number of errors.
PowershellDirectConfigPrepare(c) ==
    (IF TrimSpace(c.Username) = <<>> THEN 1 ELSE 0)
    + (IF TrimSpace(c.Password) = <<>> THEN 1 ELSE 0)

\* (*SSHConfig).Prepare: the number of errors; commFails is whether the
\* SDK's communicator.Config.Prepare reports any.
SSHConfigPrepare(c) ==
    IF EqualFold(c.Type, Type) THEN PowershellDirectConfigPrepare(c.PowerShellDirect)
    ELSE IF c.commFails THEN 1 ELSE 0

\* Mutant of PrepareResult: the builder's VM name is not checked.
PrepareResultNameUnchecked(c) ==
    IF c.decodeFails THEN [c EXCEPT !.called = TRUE, !.failed = TRUE]
    ELSE
    LET c1 == IF TrimSpace(c.Type) = <<>> THEN [c EXCEPT !.Type = Type] ELSE c
        c2 == IF EqualFold(c1.Type, Type) /\ TrimSpace(c1.PowerShellDirect.VMName) = <<>>
              THEN [c1 EXCEPT !.PowerShellDirect.VMName = c1.VMName]
              ELSE c1
        errs == SSHConfigPrepare(c2)
    IN  [c2 EXCEPT !.called = TRUE, !.failed = errs > 0]

\* What Prepare leaves in b.config, and whether it returned an error.
PrepareResult(c) ==
    IF c.decodeFails THEN [c EXCEPT !.called = TRUE, !.failed = TRUE]
    ELSE
    LET nameErrs == IF TrimSpace(c.VMName) = <<>> THEN 1 ELSE 0
        c1 == IF TrimSpace(c.Type) = <<>> THEN [c EXCEPT !.Type = Type] ELSE c
        c2 == IF EqualFold(c1.Type, Type) /\ TrimSpace(c1.PowerShellDirect.VMName) = <<>>
              THEN [c1 EXCEPT !.PowerShellDirect.VMName = c1.VMName]
              ELSE c1
        errs == nameErrs + SSHConfigPrepare(c2)
    IN  [c2 EXCEPT !.called = TRUE, !.failed = errs > 0]

PrepareInit ==
    /\ comm = newTestCommunicator
    /\ cmd = NilCmd
    /\ ctxDone = FALSE
    /\ startRet = "pending"
    /\ streamCalls = <<>>
    /\ exitCalls = 0
    /\ exitStatus = 0
    /\ stdoutSink = <<>>
    /\ stderrSink = <<>>
    /\ procState = "none"
    /\ hasOut = FALSE
    /\ hasErr = FALSE
    /\ sent = <<>>
    /\ fetched = 0
    /\ scanned = 0
    /\ outClosed = FALSE
    /\ rawSent = <<>>
    /\ rawRead = 0
    /\ errClosed = FALSE
    /\ doneCh = FALSE
    /\ killCalls = 0
    /\ watchPc = "idle"
    /\ cancelPc = "idle"
    /\ pumpPc = "idle"
    /\ exitHandled = FALSE
    /\ exitCode = commandFailureStatus
    /\ rawPc = "idle"
    /\ waitErr = FALSE
    /\ streamErr = ""
    /\ runCalls = <<>>
    /\ outputCalls = <<>>
    /\ host = TestHost
    /\ call = NoCall
    /\ includeRoot = FALSE
    /\ madeDirs = {}
    /\ xferRet = "pending"
    /\ FileInit
    /\ esp = NoProc
    /\ newRet = NoNew
    /\ step = NoStep
    /\ b64 = NoDecode
    /\ vh = NoValidate
    /\ nb \in [given : Decoded, config : {NoPrepare}]
    /\ stg = NoStream

\* _, _, err := builder.Prepare(raws)
Prepare ==
    /\ ~nb.config.called
    /\ nb' = [nb EXCEPT !.config = PrepareResult(nb.given)]
    /\ UNCHANGED <<comm, RunVars, TransferVars, esp, newRet, step, b64, vh, stg>>

PrepareNext == Prepare

PrepareSpec == PrepareInit /\ [][PrepareNext]_vars

----------------------------------------------------------------------------
(* powershellRunner.Stream and saveStreamingScript: the script is staged in *)
(* a temporary file and the interpreter is started on it                    *)

\* The contents Stream is given.
StreamScripts == {"", "exit 0", executeCommandScript}

\* The call that fails, if any. The path conversions are made under WSL only.
StreamFaults(wsl) ==
    {"none", "IsPowershellAvailable", "cannot find PowerShell in PATH",
     "CreateTemp", "Write", "Close", "Rename",
     "StdoutPipe", "StderrPipe", "Start"}
    \cup (IF wsl THEN {"GetWSlTemp", "ConvertWindowsPathToWSlPath",
                       "ConvertWSlPathToWindowsPath"}
                 ELSE {})

\* The name os.CreateTemp / tmp.File gives the file, and newFilename.
StagedTemp == "powershell0"

StagedScript == "powershell0.ps1"

\* saveStreamingScript(contents): the name of the staged script, the cleanup
\* it returns ("none" is func() {}, "keep" the cleanup that returns at once
\* when debugging, "remove" the one that removes newFilename), the error, and
\* the files the call has left in the temporary directory.
saveStreamingScript(contents, wsl, debug, fault) ==
    LET failed(files) ==
            [filename |-> "", cleanup |-> "none", err |-> fault, files |-> files]
    IN  IF wsl /\ fault \in {"GetWSlTemp", "ConvertWindowsPathToWSlPath"}
        THEN failed({})
        ELSE IF fault = "CreateTemp"
        THEN failed({})
        ELSE IF fault = "Write"
        THEN failed({[name |-> StagedTemp, contents |-> ""]})
        ELSE IF fault \in {"Close", "Rename"}
        THEN failed({[name |-> StagedTemp, contents |-> contents]})
        ELSE [filename |-> StagedScript,
              cleanup |-> IF debug THEN "keep" ELSE "remove",
              err |-> "",
              files |-> {[name |-> StagedScript, contents |-> contents]}]

\* cleanup(): the files left once the cleanup saveStreamingScript returned ran.
StagedCleanup(s) ==
    IF s.cleanup = "remove" THEN {f \in s.files : f.name # s.filename}
                            ELSE s.files

\* powershellRunner.Stream(script, params...): a process or an error.
powershellRunnerStream(script, wsl, debug, fault) ==
    LET result(handle, err, s, left) ==
            [called |-> TRUE, script |-> script, fault |-> fault, wsl |-> wsl,
             debug |-> debug, handle |-> handle, err |-> err,
             filename |-> s.filename, cleanup |-> s.cleanup, left |-> left]
        nothing == [filename |-> "", cleanup |-> "none", err |-> "", files |-> {}]
        s == saveStreamingScript(script, wsl, debug, fault)
    IN  IF fault \in {"IsPowershellAvailable", "cannot find PowerShell in PATH"}
        THEN result(FALSE, fault, nothing, {})
        ELSE IF s.err # ""
        THEN result(FALSE, s.err, s, s.files)
        ELSE IF wsl /\ fault = "ConvertWSlPathToWindowsPath"
        THEN result(FALSE, fault, s, StagedCleanup(s))
        ELSE IF fault \in {"StdoutPipe", "StderrPipe", "Start"}
        THEN result(FALSE, fault, s, StagedCleanup(s))
        ELSE result(TRUE, "", s, s.files)

StreamInit ==
    /\ comm = newTestCommunicator
    /\ cmd = NilCmd
    /\ ctxDone = FALSE
    /\ startRet = "pending"
    /\ streamCalls = <<>>
    /\ exitCalls = 0
    /\ exitStatus = 0
    /\ stdoutSink = <<>>
    /\ stderrSink = <<>>
    /\ procState = "none"
    /\ hasOut = FALSE
    /\ hasErr = FALSE
    /\ sent = <<>>
    /\ fetched = 0
    /\ scanned = 0
    /\ outClosed = FALSE
    /\ rawSent = <<>>
    /\ rawRead = 0
    /\ errClosed = FALSE
    /\ doneCh = FALSE
    /\ killCalls = 0
    /\ watchPc = "idle"
    /\ cancelPc = "idle"
    /\ pumpPc = "idle"
    /\ exitHandled = FALSE
    /\ exitCode = commandFailureStatus
    /\ rawPc = "idle"
    /\ waitErr = FALSE
    /\ streamErr = ""
    /\ runCalls = <<>>
    /\ outputCalls = <<>>
    /\ host = TestHost
    /\ call = NoCall
    /\ includeRoot = FALSE
    /\ madeDirs = {}
    /\ xferRet = "pending"
    /\ FileInit
    /\ esp = NoProc
    /\ newRet = NoNew
    /\ step = NoStep
    /\ b64 = NoDecode
    /\ vh = NoValidate
    /\ nb = [given |-> NoPrepare, config |-> NoPrepare]
    /\ stg = NoStream

\* process, err := runner.Stream(script, ...)
CallStream ==
    /\ ~stg.called
    /\ \E script \in StreamScripts, wsl \in BOOLEAN, debug \in BOOLEAN :
          \E fault \in StreamFaults(wsl) :
             stg' = powershellRunnerStream(script, wsl, debug, fault)
    /\ UNCHANGED <<comm, RunVars, TransferVars, esp, newRet, step, b64, vh, nb>>

StreamNext == CallStream

StreamSpec == StreamInit /\ [][StreamNext]_vars

----------------------------------------------------------------------------
(* What the properties speak of *)

IsExit(l) == l.kind = "object" /\ l.stream = "exit"

\* The pump has read an exit envelope.
ExitRead == \E i \in 1..scanned : IsExit(sent[i])

\* The code of the first exit envelope among the first n lines of s.
FirstExitCode(s, n) ==
    s[CHOOSE i \in 1..n : IsExit(s[i]) /\ \A j \in 1..(i - 1) : ~IsExit(s[j])].code

\* Start has launched the four goroutines.
Dispatched == startRet = "nil" /\ procState # "none"

NoTask ==
    watchPc = "idle" /\ cancelPc = "idle" /\ pumpPc = "idle" /\ rawPc = "idle"

\* A command text of white space only.
IsBlank(t) == \A i \in 1..Len(t) : t[i] \in {" ", "\t", "\n", "\r"}

\* The bytes the well-formed envelopes carry, written out by hand.
PayloadOf(l) ==
    IF l = OutLine THEN <<104, 105, 13, 10>>
    ELSE IF l = ErrLine THEN <<101, 13, 10>>
    ELSE <<>>

\* The payloads of the envelopes of one stream name, concatenated in order.
RECURSIVE Expect(_, _)
Expect(s, name) ==
    IF s = <<>> THEN <<>>
    ELSE (IF Head(s).stream = name THEN PayloadOf(Head(s)) ELSE <<>>)
         \o Expect(Tail(s), name)

\* The bytes a sink received, in order.
RECURSIVE SinkBytes(_)
SinkBytes(sink) ==
    IF sink = <<>> THEN <<>> ELSE Head(sink).bytes \o SinkBytes(Tail(sink))

NoWarning(sink) == \A i \in 1..Len(sink) : sink[i].warn = ""

IsPumpWrite(w) == w.by = "pump"
PumpWrites(sink) == SelectSeq(sink, IsPumpWrite)

\* Well-formed envelopes only, the last one an exit envelope and no other.
EndsWithExit(s) ==
    /\ Len(s) > 0
    /\ IsExit(s[Len(s)])
    /\ \A i \in 1..(Len(s) - 1) : s[i] \in {OutLine, ErrLine}

\* This step is the pump handling line l.
Handling(l) ==
    /\ pumpPc = "run"
    /\ scanned < fetched
    /\ sent[scanned + 1] = l
    /\ scanned' = scanned + 1

----------------------------------------------------------------------------
(* The properties *)

\* C1: the command's exit status is set at most once, whatever the command and
\* the interleaving of the goroutines: blank command, exit envelope read, stream
\* ended without one, nil stdout, cancellation followed by Kill.
C1_ExitSetAtMostOnce == exitCalls <= 1

\* A cancelled and killed command whose exit status the pump has set.
C1_Witness == ctxDone /\ killCalls = 1 /\ pumpPc = "end" /\ exitCalls = 1

\* C2: every dispatched command terminates: once Start has returned nil for a
\* non-blank command and the process has exited (by itself or killed), the exit
\* status is eventually set, the goroutines being scheduled fairly.
C2_DispatchedTerminates ==
    (startRet = "nil" /\ ~IsBlank(cmd.Command) /\ procState = "exited")
        ~> (exitCalls >= 1)

\* The stream ended without an exit envelope and the status was set all the same.
C2_Witness ==
    /\ Dispatched /\ procState = "exited" /\ hasOut /\ watchPc = "end"
    /\ ~ExitRead /\ exitCalls = 1

\* C3: when the process has written an exit envelope, the exit status the
\* command resolves to is the code of the first one it wrote, in every
\* interleaving of the pump and the completion watcher.
C3_FirstExitEnvelopeDecides ==
    (exitCalls >= 1 /\ \E i \in 1..Len(sent) : IsExit(sent[i]))
        => exitStatus = FirstExitCode(sent, Len(sent))

\* C4: for a stream of well-formed envelopes that ends with an exit envelope,
\* both sinks present and nothing on the raw stderr, once the exit status is
\* resolved the stdout sink holds the payloads of the stdout envelopes and the
\* stderr sink those of the stderr envelopes, in order, byte for byte, and
\* nothing else.
C4_SinksHoldPayloads ==
    (/\ exitCalls >= 1
     /\ cmd.Stdout /\ cmd.Stderr
     /\ rawSent = <<>>
     /\ EndsWithExit(sent))
        => /\ NoWarning(stdoutSink) /\ NoWarning(stderrSink)
           /\ SinkBytes(stdoutSink) = Expect(sent, "stdout")
           /\ SinkBytes(stderrSink) = Expect(sent, "stderr")

\* C5: when the pump has ended without having read an exit envelope (end of
\* input, read error, nil stream), the exit status is resolved, and with
\* commandFailureStatus.
C5_StreamEndIsFailure ==
    (pumpPc = "end" /\ ~ExitRead)
        => (exitCalls = 1 /\ exitStatus = commandFailureStatus)

\* The pump handled a line, then met the closed stream.
C5_Witness ==
    pumpPc = "end" /\ ~ExitRead /\ outClosed /\ scanned >= 1 /\ scanned < Len(sent)

\* C6: once the pump has read an exit envelope it handles no further line: it
\* writes nothing more to either sink and the exit status is not set again.
C6_NothingAfterExit ==
    [][ExitRead =>
          /\ scanned' = scanned
          /\ stdoutSink' = stdoutSink
          /\ PumpWrites(stderrSink') = PumpWrites(stderrSink)
          /\ exitCalls' = exitCalls
          /\ exitStatus' = exitStatus]_vars

\* An exit envelope was read first of three lines, the other two sit unread in
\* the scanner's buffer and the pump has ended.
C6_Witness ==
    /\ Len(sent) = 3 /\ IsExit(sent[1]) /\ scanned = 1 /\ fetched = 3
    /\ pumpPc = "end" /\ exitCalls = 1

\* The lines that do not decode.
BadLines == {GarbageLine, OtherLine, OutBadLine, ErrBadLine}

Reported(l) == cmd.Stderr /\ (l = OutBadLine => cmd.Stdout)

C8_AbsentSinkDiscards ==
    /\ [](/\ ~cmd.Stdout => stdoutSink = <<>>
          /\ ~cmd.Stderr => stderrSink = <<>>
          /\ ((~cmd.Stdout \/ ~cmd.Stderr) /\ ExitRead)
                => (exitCalls = 1 /\ exitStatus = FirstExitCode(sent, scanned)))
    /\ [][/\ (~cmd.Stdout /\ Handling(OutLine)) =>
                (pumpPc' = "run" /\ exitCalls' = exitCalls)
          /\ (~cmd.Stderr /\ Handling(ErrLine)) =>
                (pumpPc' = "run" /\ exitCalls' = exitCalls)
          /\ (~cmd.Stderr /\ rawPc = "run" /\ rawRead' = rawRead + 1) =>
                (rawPc' = "run" /\ exitCalls' = exitCalls)]_vars

\* With neither sink: a stdout envelope and a raw chunk were discarded, then the
\* exit envelope resolved the status.
C8_Witness ==
    /\ Dispatched /\ ~cmd.Stdout /\ ~cmd.Stderr
    /\ sent = <<OutLine, ExitLine(7)>> /\ scanned = 2
    /\ rawRead = 1
    /\ exitCalls = 1 /\ exitStatus = 7

\* C9: Start with a nil command returns an error and does nothing else: no call
\* of the runner, no goroutine, no exit status, no write.
C9_NilCommandRejected ==
    (startRet # "pending" /\ cmd.nil)
        => /\ startRet = "errNilCmd"
           /\ streamCalls = <<>>
           /\ NoTask /\ procState = "none"
           /\ exitCalls = 0
           /\ stdoutSink = <<>> /\ stderrSink = <<>>

C9_Witness == startRet = "errNilCmd" /\ cmd.nil /\ ctxDone

\* C10: Start with an empty or white-space-only command returns nil with the
\* exit status resolved to 0, calls the runner zero times and launches no
\* goroutine.
C10_BlankCommandSkipped ==
    (startRet # "pending" /\ ~cmd.nil /\ IsBlank(cmd.Command))
        => /\ startRet = "nil"
           /\ exitCalls = 1 /\ exitStatus = 0
           /\ streamCalls = <<>>
           /\ NoTask /\ procState = "none"

C10_Witness ==
    startRet = "nil" /\ cmd.Command = <<" ", "\t", " ">> /\ exitCalls = 1

\* This step is the return of Start, called with a command that is neither nil
\* nor blank.
StartReturns ==
    /\ startRet = "pending" /\ startRet' # "pending"
    /\ ~cmd'.nil /\ ~IsBlank(cmd'.Command)

\* C11: Start called with a non-blank command while the context is already
\* cancelled returns the context's error, calls runner.Stream zero times and
\* launches no goroutine, then and ever after.
C11_CanceledBeforeDispatch ==
    /\ [][(StartReturns /\ ctxDone) =>
            (/\ startRet' = "ctxErr"
             /\ streamCalls' = <<>>
             /\ watchPc' = "idle" /\ cancelPc' = "idle"
             /\ pumpPc' = "idle" /\ rawPc' = "idle"
             /\ procState' = "none")]_vars
    /\ [](startRet = "ctxErr" =>
            (streamCalls = <<>> /\ NoTask /\ procState = "none" /\ killCalls = 0))

C11_Witness ==
    startRet = "ctxErr" /\ ctxDone /\ cmd.Command = <<"d", "i", "r">>

\* C12: Start called with a non-blank command while the context is already
\* cancelled resolves the command's exit status exactly once.
C12_CanceledResolvesExit ==
    startRet = "ctxErr" => exitCalls = 1

\* C13: when runner.Stream fails, Start returns that very error and stops: no
\* goroutine is launched, so Wait and Kill are never called, and nothing is
\* written to either sink.
C13_SpawnFailureAborts ==
    (streamErr # "") =>
        /\ startRet = streamErr
        /\ NoTask /\ procState = "none"
        /\ killCalls = 0
        /\ stdoutSink = <<>> /\ stderrSink = <<>>

C13_Witness ==
    streamErr = "exec: start failed" /\ startRet = "exec: start failed"
    /\ Len(streamCalls) = 1

\* C14: a Start call that passes the nil, blank and cancellation checks calls
\* runner.Stream exactly once, with the execute-command script and the four
\* parameters VM name, user name, password, command text in this order; no
\* further call of Stream follows, and Run and Output are never called.
C14_StreamCalledOnce ==
    /\ [][(StartReturns /\ ~ctxDone) =>
            streamCalls' =
               << [script |-> executeCommandScript,
                   params |-> <<"test-vm", "user", "pass", cmd'.Command>>] >>]_vars
    /\ [](Len(streamCalls) <= 1 /\ runCalls = <<>> /\ outputCalls = <<>>)

C14_Witness ==
    /\ Dispatched /\ pumpPc = "end" /\ watchPc = "end"
    /\ streamCalls = << [script |-> executeCommandScript,
                         params |-> <<"test-vm", "user", "pass", <<"d", "i", "r">> >>] >>

\* C15: Start does not block on the process: at the step at which runner.Stream
\* has succeeded Start returns nil, with nothing read from either stream,
\* nothing written by the process and Wait not yet returned; and whatever
\* happens later (an exit envelope with a non-zero code, Wait failing, a read
\* error, cancellation), what Start returned stays nil.
C15_StartNeverBlocks ==
    /\ [][(startRet = "pending" /\ procState' = "running") =>
            (/\ startRet' = "nil"
             /\ fetched' = 0 /\ scanned' = 0 /\ rawRead' = 0
             /\ sent' = <<>> /\ rawSent' = <<>>
             /\ watchPc' = "wait" /\ exitCalls' = 0)]_vars
    /\ [][(startRet = "nil") => (startRet' = "nil")]_vars

\* Start returned nil; later the command was cancelled and killed, Wait failed
\* and the closed stream gave a read error.
C15_Witness ==
    /\ startRet = "nil" /\ Dispatched
    /\ ctxDone /\ killCalls = 1 /\ waitErr /\ watchPc = "end"
    /\ outClosed /\ pumpPc = "end" /\ exitStatus = commandFailureStatus

\* C16: when the process's Wait has returned a failure, the exit status the
\* command resolves to is not zero.
C16_WaitFailureSurfaces ==
    (Dispatched /\ waitErr /\ watchPc \notin {"idle", "wait"} /\ exitCalls >= 1)
        => exitStatus # 0

\* The chunks io.Copy has read from the raw stderr, concatenated.
RECURSIVE Flatten(_)
Flatten(chunks) ==
    IF chunks = <<>> THEN <<>> ELSE Head(chunks) \o Flatten(Tail(chunks))

IsRawWrite(w) == w.by = "raw" /\ w.warn = ""

DirTransfer == call.op \in {"UploadDir", "DownloadDir"}

\* C18: UploadDir and DownloadDir called with a non-empty exclude list return
\* errUnsupportedExclude having done nothing: no call of the runner, and no
\* directory created.
C18_ExcludeRejected ==
    (DirTransfer /\ Len(call.exclude) > 0) =>
        /\ xferRet = "errUnsupportedExclude"
        /\ runCalls = <<>> /\ outputCalls = <<>> /\ streamCalls = <<>>
        /\ madeDirs = {}

C18_Witness ==
    /\ call.op = "DownloadDir" /\ call.exclude = <<"*.tmp">>
    /\ call.dst = <<"d">> /\ xferRet = "errUnsupportedExclude"

\* C19: includeSourceRoot(path) is true exactly when path is not empty and its
\* last character is neither "/" nor "\": checked on the value the directory
\* transfers compute for every source path they are called with.
C19_IncludeSourceRoot ==
    (DirTransfer /\ call.exclude = <<>>) =>
        (includeRoot <=>
            (/\ Len(call.src) > 0
             /\ call.src[Len(call.src)] # "/"
             /\ call.src[Len(call.src)] # "\\"))

C19_Witness ==
    /\ call.op = "UploadDir" /\ call.exclude = <<>>
    /\ call.src = <<"/", "d", "\\">> /\ includeRoot = FALSE

\* The errors of the local path handling.
LocalPathErrs == {"getwd failed", "wslpath failed", "mkdir failed"}

\* C20: with an empty exclude list and no local path error, UploadDir calls
\* runner.Run exactly once with the upload-directory script and VM name, user
\* name, password, hostPath(src), dst, flag, and DownloadDir exactly once with
\* the download-directory script and VM name, user name, password, src,
\* hostPath(Abs(dst)), flag; flag is "true" or "false" as includeSourceRoot of
\* the src given by the caller; the operation returns what Run returned, and
\* calls nothing else of the runner.
C20_DirScriptsRunOnce ==
    (DirTransfer /\ call.exclude = <<>> /\ xferRet \notin LocalPathErrs) =>
        /\ Len(runCalls) = 1
        /\ runCalls[1].script =
              (IF call.op = "UploadDir" THEN uploadDirectoryScript
                                        ELSE downloadDirectoryScript)
        /\ runCalls[1].params =
              (IF call.op = "UploadDir"
               THEN <<"test-vm", "user", "pass",
                      hostPath(call.src, NoFault).path, call.dst,
                      IF includeSourceRoot(call.src) THEN "true" ELSE "false">>
               ELSE <<"test-vm", "user", "pass",
                      call.src, hostPath(Abs(call.dst, NoFault).path, NoFault).path,
                      IF includeSourceRoot(call.src) THEN "true" ELSE "false">>)
        /\ xferRet = runCalls[1].ret
        /\ outputCalls = <<>> /\ streamCalls = <<>>

\* UploadDir of "d/" on Linux: the host path has lost the trailing separator,
\* the flag is that of the path as given, and the script's failure is returned.
C20_Witness ==
    /\ call.op = "UploadDir" /\ call.src = <<"d", "/">> /\ call.exclude = <<>>
    /\ host = [goos |-> "linux", wsl |-> FALSE]
    /\ Len(runCalls) = 1
    /\ runCalls[1].params[4] = <<"/", "w", "/", "d">>
    /\ runCalls[1].params[6] = "false"
    /\ xferRet = "script failed"

\* The absolute destination of the DownloadDir called.
DestPath == Abs(call.dst, NoFault).path

\* Something of this kind was done on the host during the transfer.
HasEv(name) == \E i \in 1..Len(hostLog) : hostLog[i].ev = name

\* The temporary file's path as the script is given it.
TempHostPath == hostPath(TempName, NoFault).path

\* The parameters a file transfer gives the script.
FileParams(remote) == <<"test-vm", "user", "pass", TempHostPath, remote>>

\* The bytes the script left in the temporary file.
Populated ==
    LET i == CHOOSE i \in 1..Len(hostLog) : hostLog[i].ev = "Populate"
    IN  hostLog[i].content


\* C21: DownloadDir creates the absolute destination directory before it runs
\* the copy script: every run of the script comes after the MkdirAll of that
\* directory, which then exists; and when the directory could not be created
\* DownloadDir returns that error, no script having run.
C21_MkdirBeforeRun ==
    (call.op = "DownloadDir" /\ call.exclude = <<>>) =>
        /\ \A i \in 1..Len(hostLog) :
              hostLog[i].ev = "Run" =>
                 \E j \in 1..(i - 1) :
                    hostLog[j].ev = "MkdirAll" /\ hostLog[j].path = DestPath
        /\ runCalls # <<>> => DestPath \in madeDirs
        /\ (xferRet # "getwd failed" /\ DestPath \notin madeDirs) =>
              (xferRet = "mkdir failed" /\ runCalls = <<>>)

\* DownloadDir to the relative path "d/" on Windows: C:\w\d was created, then
\* the script ran.
C21_Witness ==
    /\ call.op = "DownloadDir" /\ call.dst = <<"d", "/">>
    /\ host.goos = "windows"
    /\ madeDirs = {<<"C", ":", "\\", "w", "\\", "d">>}
    /\ Len(hostLog) = 2 /\ hostLog[1].ev = "MkdirAll" /\ hostLog[2].ev = "Run"
    /\ xferRet = "nil"

\* C22: Upload with a nil reader and Download with a nil writer return an
\* error before any side effect: nothing is done on the host, no temporary
\* file exists, the runner is not invoked.
C22_NilArgument ==
    (\/ call.op = "Upload" /\ input.nil
     \/ call.op = "Download" /\ output.nil) =>
        /\ xferRet \in {"upload input cannot be nil", "download output cannot be nil"}
        /\ hostLog = <<>>
        /\ tempFile = NoFile
        /\ runCalls = <<>>
        /\ outputCalls = <<>>

C22_Witness ==
    /\ call.op = "Upload" /\ input.nil
    /\ xferRet = "upload input cannot be nil"
    /\ hostLog = <<>>

\* C23: once Upload has created its temporary file, the file no longer exists
\* when Upload returns, whichever way it returns; the removal is the last
\* thing Upload does.
C23_UploadRemovesTemp ==
    (call.op = "Upload" /\ HasEv("CreateTemp")) =>
        /\ ~tempFile.exists
        /\ hostLog[Len(hostLog)].ev = "Remove"

C23_Witness ==
    /\ call.op = "Upload" /\ host.goos = "windows"
    /\ xferRet = "read failed"
    /\ HasEv("CreateTemp")
    /\ tempFile = NoFile

\* C24: Upload invokes Run at most once, with the copy-to-guest script and
\* [vm, user, pass, hostPath, remotePath], and only after the reader was
\* drained to end of input into the temporary file and the file closed; a
\* failure of the reader is returned and Run is not invoked.
C24_UploadRunsAfterDrain ==
    call.op = "Upload" =>
        /\ Len(runCalls) <= 1
        /\ runCalls # <<>> => HasEv("Run")
        /\ \A i \in 1..Len(hostLog) :
              hostLog[i].ev = "Run" =>
                 /\ Len(runCalls) = 1
                 /\ runCalls[1].script = uploadFileScript
                 /\ runCalls[1].params = FileParams(call.dst)
                 /\ \E j \in 1..(i - 1) :
                       /\ hostLog[j].ev = "Copy"
                       /\ hostLog[j].eof
                       /\ hostLog[j].n = Len(input.data)
                       /\ \E k \in (j + 1)..(i - 1) : hostLog[k].ev = "Close"
        /\ \A j \in 1..Len(hostLog) :
              (/\ hostLog[j].ev = "Copy"
               /\ ~hostLog[j].eof
               /\ input.err
               /\ hostLog[j].n = Len(input.data)) =>
                 (xferRet = "read failed" /\ runCalls = <<>>)

C24_Witness ==
    /\ call.op = "Upload" /\ host.wsl
    /\ input.data = <<100, 111>> /\ ~input.err
    /\ Len(runCalls) = 1
    /\ runCalls[1].params = <<"test-vm", "user", "pass", TempHostPath, call.dst>>
    /\ xferRet = "nil"

\* What C25 says besides the number of invocations: Run comes before any
\* write to the writer; a failure of Run is returned and the writer receives
\* no byte; on success the writer holds exactly what the script left in the
\* temporary file; the temporary file is gone on every return after its
\* allocation.
DownloadRest ==
    /\ Len(runCalls) <= 1
    /\ runCalls # <<>> =>
          /\ runCalls[1].script = downloadFileScript
          /\ runCalls[1].params = FileParams(call.src)
          /\ HasEv("Run")
    /\ \A i \in 1..Len(hostLog) :
          hostLog[i].ev = "Write" =>
             \E j \in 1..(i - 1) : hostLog[j].ev = "Run"
    /\ (runCalls # <<>> /\ runCalls[1].ret # "nil") =>
          (xferRet = runCalls[1].ret /\ output.buf = <<>>)
    /\ xferRet = "nil" => (HasEv("Populate") /\ output.buf = Populated)
    /\ HasEv("CreateTemp") =>
          (~tempFile.exists /\ hostLog[Len(hostLog)].ev = "Remove")

\* C25 (as stated): every Download given a writer invokes Run exactly once.
C25_Original ==
    (call.op = "Download" /\ ~output.nil) =>
        (Len(runCalls) = 1 /\ DownloadRest)

\* C25 (amended): Download invokes Run at most once, and exactly once when the
\* temporary file was allocated and its path translated; the rest as stated.
C25_DownloadRunsOnce ==
    (call.op = "Download" /\ ~output.nil) =>
        /\ DownloadRest
        /\ (HasEv("CreateTemp") /\ xferRet # "wslpath failed") => Len(runCalls) = 1
        /\ runCalls = <<>> => xferRet \in {"create temp failed", "wslpath failed"}

C25_Witness ==
    /\ call.op = "Download" /\ host.goos = "windows"
    /\ Len(runCalls) = 1 /\ runCalls[1].ret = "nil"
    /\ output.buf = <<100, 111>>
    /\ xferRet = "nil"
    /\ tempFile = NoFile

\* A string has the form of standard base64 when, line breaks aside, its
\* length is a multiple of four and it consists of alphabet characters, of
\* which the last one or the last two may be replaced by '='.
WellFormed(s) ==
    LET t == StripNewlines(s)
        n == Len(t)
    IN  /\ n % 4 = 0
        /\ \A i \in 1..n :
              \/ IsB64(t[i])
              \/ /\ t[i] = "="
                 /\ i >= n - 1
                 /\ t[n] = "="

\* C26: decodeBase64 returns b without error for the standard encoding of a
\* non-empty byte string b, an empty payload without error for the empty or
\* whitespace-only string, and an error for a non-blank string that has not
\* the form of standard base64.
C26_DecodeInverts ==
    b64.called =>
        /\ b64.encoded => (~b64.err /\ b64.bytes = b64.plain)
        /\ TrimSpace(b64.value) = <<>> => (~b64.err /\ b64.bytes = <<>>)
        /\ (TrimSpace(b64.value) # <<>> /\ ~WellFormed(b64.value)) => b64.err

C26_Witness ==
    /\ b64.called /\ b64.encoded
    /\ b64.plain = <<104, 255>>
    /\ b64.value = <<"a", "P", "8", "=">>
    /\ b64.bytes = <<104, 255>>
    /\ ~b64.err

\* C27: a communicator returned by New has a trimmed, non-empty VM name,
\* username and password; the VM name is the argument when that is not blank
\* and the configured one otherwise; New returns an error and no communicator
\* when the resulting VM name, the username or the password is blank; and no
\* later operation changes the three fields.
C27_IdentityValid ==
    newRet.called =>
        /\ newRet.err = "" =>
              /\ comm.vmName # <<>> /\ TrimSpace(comm.vmName) = comm.vmName
              /\ comm.config.Username # <<>>
              /\ TrimSpace(comm.config.Username) = comm.config.Username
              /\ comm.config.Password # <<>>
              /\ TrimSpace(comm.config.Password) = comm.config.Password
              /\ comm.vmName = IF TrimSpace(newRet.vmName) # <<>>
                               THEN TrimSpace(newRet.vmName)
                               ELSE TrimSpace(newRet.cfg.VMName)
              /\ comm.config.Username = TrimSpace(newRet.cfg.Username)
              /\ comm.config.Password = TrimSpace(newRet.cfg.Password)
        /\ newRet.err # "" => comm = NilComm
        /\ (\/ TrimSpace(newRet.vmName) = <<>> /\ TrimSpace(newRet.cfg.VMName) = <<>>
            \/ TrimSpace(newRet.cfg.Username) = <<>>
            \/ TrimSpace(newRet.cfg.Password) = <<>>) => newRet.err # ""

C27_IdentityKept ==
    newRet.called =>
        /\ comm'.vmName = comm.vmName
        /\ comm'.config.Username = comm.config.Username
        /\ comm'.config.Password = comm.config.Password

C27_SessionIdentity == []C27_IdentityValid /\ [][C27_IdentityKept]_vars

C27_Witness ==
    /\ newRet.called /\ newRet.err = ""
    /\ newRet.vmName = <<" ">>
    /\ newRet.cfg.VMName = <<" ", "c", " ">>
    /\ comm.vmName = <<"c">>
    /\ comm.config.Username = <<"u">>
    /\ call.op = "Upload" /\ xferRet = "nil"

\* The calls of Kill that have returned.
KillsDone ==
    {i \in 1..MaxCalls : esp.calls[i].op = "Kill" /\ esp.calls[i].pc = "done"}

\* C28 (as stated): a Kill called after a Wait has returned returns no error,
\* and all calls of Kill return the same.
C28_KillAfterWait ==
    /\ \A i \in KillsDone : esp.calls[i].afterWait => esp.calls[i].ret = "nil"
    /\ \A i, j \in KillsDone : esp.calls[i].ret = esp.calls[j].ret

\* C29: whatever the calls of Wait and Kill and their interleaving, the
\* cleanup runs at most once, and it has run (and, unless debugging keeps it,
\* the staged script is removed) once a Wait or Kill on the started process
\* has returned.
C29_CleanupOnce ==
    /\ esp.cleanups <= 1
    /\ (/\ esp.started
        /\ \E i \in 1..MaxCalls : esp.calls[i].pc = "done") =>
          /\ esp.cleanups = 1
          /\ ~esp.debug => ~esp.script

C29_Witness ==
    /\ esp.started /\ ~esp.debug
    /\ esp.calls[1].op = "Wait" /\ esp.calls[1].pc = "done"
    /\ esp.calls[1].overlapped
    /\ esp.calls[2].op = "Kill" /\ esp.calls[2].pc = "done"
    /\ esp.calls[2].overlapped /\ esp.calls[2].ret = "nil"
    /\ esp.calls[3].op = "Kill" /\ esp.calls[3].pc = "done"
    /\ esp.cleanups = 1 /\ ~esp.script

\* The step's Config as it was given: the run only trims the credentials.
NameBlank ==
    /\ TrimSpace(step.given.vmName.val) = <<>>
    /\ TrimSpace(step.Config.VMName) = <<>>

CredentialBlank ==
    \/ TrimSpace(step.Config.Username) = <<>>
    \/ TrimSpace(step.Config.Password) = <<>>

\* C30: Run returns ActionContinue with a communicator stored and no error,
\* or ActionHalt with an error stored and no communicator; it halts when the
\* config is nil, the VM name from state and config is blank, the username
\* or the password is blank, or the factory fails, whose error is then the
\* one stored; the factory is invoked at most once and only after the checks
\* have passed.
C30_ConnectOutcomes ==
    step.ran =>
        /\ \/ /\ step.action = "ActionContinue"
              /\ step.state.communicator # "none"
              /\ step.state.error = ""
           \/ /\ step.action = "ActionHalt"
              /\ step.state.error # ""
              /\ step.state.communicator = "none"
        /\ (step.Config.nil \/ NameBlank \/ CredentialBlank) =>
              (step.action = "ActionHalt" /\ step.factoryCalls = <<>>)
        /\ Len(step.factoryCalls) <= 1
        /\ step.factoryCalls # <<>> =>
              /\ ~step.Config.nil /\ ~NameBlank /\ ~CredentialBlank
              /\ LET r == FactoryResult(step.Factory, step.factoryCalls[1].vmName,
                                        step.factoryCalls[1].cfg)
                 IN  IF r.err # ""
                     THEN step.action = "ActionHalt" /\ step.state.error = r.err
                     ELSE step.action = "ActionContinue"
        /\ step.Factory = "fail" =>
              (step.action = "ActionHalt" /\
               (step.factoryCalls # <<>> => step.state.error = "failed to connect"))

C30_Witness ==
    /\ step.ran /\ step.Factory = "fail"
    /\ Len(step.factoryCalls) = 1
    /\ step.factoryCalls[1].vmName = <<"c">>
    /\ step.action = "ActionHalt"
    /\ step.state.error = "failed to connect"
    /\ step.state.communicator = "none"

\* The VM name the state held when the step began, trimmed.
GivenName == TrimSpace(step.given.vmName.val)

\* C31: a non-blank vmName in the state is (trimmed) the name given to the
\* factory, whatever the config names, and the state's vmName and
\* instance_id are left as they were; when the state's name is missing or
\* blank the config's VMName is used and written to the state as vmName, and
\* as instance_id only if instance_id was not present.
C31_StateNameFirst ==
    (/\ step.ran /\ ~step.Config.nil
     /\ ~(step.given.vmName.has /\ ~step.given.vmName.isString)) =>
        /\ GivenName # <<>> =>
              /\ \A i \in 1..Len(step.factoryCalls) :
                    step.factoryCalls[i].vmName = GivenName
              /\ step.state.vmName = step.given.vmName
              /\ step.state.instance_id = step.given.instance_id
        /\ (GivenName = <<>> /\ TrimSpace(step.Config.VMName) # <<>>) =>
              /\ \A i \in 1..Len(step.factoryCalls) :
                    step.factoryCalls[i].vmName = TrimSpace(step.Config.VMName)
              /\ step.state.vmName = Str(TrimSpace(step.Config.VMName))
              /\ step.state.instance_id =
                    IF step.given.instance_id.has THEN step.given.instance_id
                    ELSE Str(TrimSpace(step.Config.VMName))
        /\ (GivenName = <<>> /\ TrimSpace(step.Config.VMName) = <<>>) =>
              /\ step.factoryCalls = <<>>
              /\ step.state.vmName = step.given.vmName
              /\ step.state.instance_id = step.given.instance_id

C31_Witness ==
    /\ step.ran /\ step.action = "ActionContinue"
    /\ step.given.vmName = Str(<<" ", "s">>)
    /\ step.Config.VMName = <<" ", "c", " ">>
    /\ step.given.instance_id = Absent
    /\ Len(step.factoryCalls) = 1 /\ step.factoryCalls[1].vmName = <<"s">>
    /\ step.state.vmName = Str(<<" ", "s">>)
    /\ step.state.instance_id = Absent

\* The detection is asked for and does not report support.
DetectionFails ==
    vh.EnableVirtualizationExtensions /\ vh.virtExt \in {"error", "unsupported"}

\* C32: Run returns ActionHalt with an error stored exactly when the flag is
\* set and the detection returns an error or reports no support; otherwise
\* it returns ActionContinue and stores no error; a host short of memory
\* gets a warning and no halt; the detection is not called with the flag off.
C32_ValidateHalts ==
    vh.ran =>
        /\ DetectionFails => (vh.action = "ActionHalt" /\ vh.error # "")
        /\ ~DetectionFails => (vh.action = "ActionContinue" /\ vh.error = "")
        /\ (~DetectionFails /\ vh.freeMB - vh.RamSize < LowRam) =>
              vh.says = <<"Warning">>
        /\ (~DetectionFails /\ vh.freeMB - vh.RamSize >= LowRam) => vh.says = <<>>
        /\ ~vh.EnableVirtualizationExtensions => vh.virtCalls = 0
        /\ vh.virtCalls <= 1

C32_Witness ==
    /\ vh.ran /\ ~vh.EnableVirtualizationExtensions
    /\ vh.virtExt = "error"
    /\ vh.RamSize = 1024 /\ vh.freeMB = 1200
    /\ vh.action = "ActionContinue" /\ vh.error = ""
    /\ vh.says = <<"Warning">>
    /\ vh.virtCalls = 0

\* C33: after a Prepare that succeeded the communicator type is not blank (a
\* blank one became powershell-direct) and, when the type is
\* powershell-direct, the PowerShell Direct VM name is not blank (an empty
\* one became the builder's name); Prepare fails whenever the builder's
\* powershell_direct_vm_name is blank.
C33_PrepareDefaults ==
    nb.config.called =>
        /\ ~nb.config.failed =>
              /\ TrimSpace(nb.config.Type) # <<>>
              /\ TrimSpace(nb.given.Type) = <<>> => nb.config.Type = Type
              /\ EqualFold(nb.config.Type, Type) =>
                    /\ TrimSpace(nb.config.PowerShellDirect.VMName) # <<>>
                    /\ TrimSpace(nb.given.PowerShellDirect.VMName) = <<>> =>
                          nb.config.PowerShellDirect.VMName = nb.given.VMName
        /\ TrimSpace(nb.given.VMName) = <<>> => nb.config.failed

C33_Witness ==
    /\ nb.config.called /\ ~nb.config.failed
    /\ nb.given.Type = <<" ">>
    /\ nb.given.VMName = <<" ", "v">>
    /\ nb.given.PowerShellDirect.VMName = <<>>
    /\ nb.config.Type = Type
    /\ nb.config.PowerShellDirect.VMName = <<" ", "v">>

----------------------------------------------------------------------------
(* Cancellation, the completion watcher and the order of Start's checks *)

\* The four goroutines of one Start call have ended.
AllTasksEnded ==
    watchPc = "end" /\ cancelPc = "end" /\ pumpPc = "end" /\ rawPc = "end"

\* C34: Kill is invoked only after the cancellation signal has fired and at
\* most once per Start call; while the signal has not fired Kill has not been
\* invoked and the cancellation watcher has ended only on the done event, and
\* once the done event is signaled the cancellation watcher ends.
C34_KillOnlyOnCancel ==
    /\ [](/\ killCalls <= 1
          /\ (killCalls > 0 => ctxDone)
          /\ ((~ctxDone /\ cancelPc = "end") => (doneCh /\ killCalls = 0)))
    /\ (doneCh ~> (cancelPc = "end"))

\* A command that ran to its end without cancellation: the cancellation
\* watcher ended on the done event and nothing was killed.
C34_Witness ==
    /\ Dispatched /\ ~ctxDone /\ doneCh
    /\ cancelPc = "end" /\ killCalls = 0

\* C35: Kill is never invoked once the done event has been signaled: no step
\* that calls Kill starts in a state where done is closed.
C35_NoKillAfterDone ==
    [][killCalls' > killCalls => ~doneCh]_vars

\* C36: when the cancellation signal has fired while a dispatched command's
\* process still runs, then (the goroutines being scheduled fairly) the process
\* does not run on unkilled, and eventually Wait has returned, both streams are
\* closed, the four goroutines have ended and the exit status is set once: to
\* the code of the exit envelope the pump had read, else to the failure status.
C36_CancelTerminates ==
    /\ (Dispatched /\ ctxDone /\ procState = "running")
          ~> (killCalls = 1 \/ procState = "exited")
    /\ (Dispatched /\ ctxDone /\ procState = "running")
          ~> (/\ procState = "exited"
              /\ doneCh
              /\ (hasOut => outClosed) /\ (hasErr => errClosed)
              /\ AllTasksEnded
              /\ exitCalls = 1
              /\ exitStatus = IF ExitRead THEN FirstExitCode(sent, scanned)
                              ELSE commandFailureStatus)

\* A cancelled command, killed before the pump met an exit envelope, that has
\* come to its end with the failure status.
C36_Witness ==
    /\ Dispatched /\ ctxDone /\ killCalls = 1 /\ waitErr
    /\ hasOut /\ hasErr /\ outClosed /\ errClosed
    /\ AllTasksEnded /\ ~ExitRead
    /\ exitCalls = 1 /\ exitStatus = commandFailureStatus

\* C37: the streams are closed only after Wait has returned, stdout before
\* stderr; the done event is signaled only after Wait has returned and both
\* streams were closed, by the watcher's last step, and is never signaled again
\* or taken back.
C37_WatcherOrder ==
    /\ []((outClosed \/ errClosed) =>
              (procState = "exited" /\ watchPc \in {"closeStderr", "signal", "end"}))
    /\ [](errClosed => (watchPc \in {"signal", "end"} /\ (hasOut => outClosed)))
    /\ [](doneCh <=> watchPc = "end")
    /\ [](doneCh => /\ procState = "exited"
                    /\ (hasOut => outClosed) /\ (hasErr => errClosed))
    /\ [][doneCh' # doneCh =>
             (~doneCh /\ watchPc = "signal" /\ watchPc' = "end")]_vars

\* Both streams closed and done signaled, the cancellation watcher not yet run.
C37_Witness ==
    /\ Dispatched /\ hasOut /\ hasErr /\ outClosed /\ errClosed
    /\ doneCh /\ cancelPc = "select"

\* The goroutines that have written to a sink.
WritersOf(sink) == {sink[i].by : i \in 1..Len(sink)}

\* C38: each sink has one writer: all the writes a sink has received come from
\* the same goroutine.
C38_OneWriterPerSink ==
    /\ Cardinality(WritersOf(stdoutSink)) <= 1
    /\ Cardinality(WritersOf(stderrSink)) <= 1

\* C39: Start checks nil, blank, cancellation, spawn in this order. A nil
\* command is refused; a blank command gets exit status 0 and a nil return with
\* no Stream call, also when the context is already cancelled; the context's
\* error is returned only for a command that is neither nil nor blank, and
\* then without a Stream call.
C39_CheckOrder ==
    /\ []((startRet # "pending" /\ cmd.nil) => startRet = "errNilCmd")
    /\ []((startRet = "ctxErr") =>
              (~cmd.nil /\ ~IsBlank(cmd.Command) /\ ctxDone /\ streamCalls = <<>>))
    /\ [][(startRet = "pending" /\ startRet' # "pending"
            /\ ~cmd'.nil /\ IsBlank(cmd'.Command)) =>
              /\ startRet' = "nil"
              /\ exitCalls' = 1 /\ exitStatus' = 0
              /\ streamCalls' = <<>> /\ procState' = "none"]_vars
    /\ [][(startRet = "pending" /\ startRet' # "pending" /\ ctxDone
            /\ ~cmd'.nil /\ ~IsBlank(cmd'.Command)) =>
              startRet' = "ctxErr"]_vars

\* A blank command started under a cancelled context.
C39_Witness ==
    /\ ctxDone /\ ~cmd.nil /\ IsBlank(cmd.Command) /\ Len(cmd.Command) > 0
    /\ startRet = "nil" /\ exitCalls = 1 /\ exitStatus = 0
    /\ streamCalls = <<>>

\* C40: a call of Stream returns either a process and no error, the staged
\* script in place and (debugging aside) the cleanup that removes it handed
\* to the process, or an error and no process, and then (debugging aside) it
\* has left no file behind in the temporary directory.
C40_StreamLeavesNothing ==
    stg.called =>
        \/ /\ stg.handle /\ stg.err = ""
           /\ stg.left = {[name |-> stg.filename, contents |-> stg.script]}
           /\ ~stg.debug => stg.cleanup = "remove"
        \/ /\ ~stg.handle /\ stg.err # ""
           /\ ~stg.debug => stg.left = {}

====
